---- MODULE Spec2Model ----
(***************************************************************************)
(* A model of the mock-llm gateway: the kernel handle (debounced reload    *)
(* and snapshot swap), the resolver / alias router, the static reply       *)
(* engine (when-clauses, rule selection, round-robin pick), the script     *)
(* worker with its per-request timeout, the interactive hub with its       *)
(* handlers, operators and subscribers, and the SSE streaming pipeline.    *)
(*                                                                         *)
(* Strings that the code inspects character by character are sequences of  *)
(* one-character strings; identifiers that the code only compares are      *)
(* TLA+ strings.                                                           *)
(***************************************************************************)
EXTENDS Integers, Sequences, FiniteSets, TLC

VARIABLES
    fin,        \* input of the pure function under check (a record)
    fout,       \* its result, NoOut before it has been applied
    now,        \* the monotonic clock, in ms
    snaps,      \* the KernelState objects built so far, by snapshot id
    published,  \* KernelHandle.inner: the id of the published snapshot
    wlock,      \* the holder of the write lock on inner, if any
    last_start, \* ReloadState.last_start
    rpc,        \* where each reload() caller stands
    rbuild,     \* the snapshot each reload() caller is building
    rcall,      \* history: when each caller's call was made, and what it followed
    rret,       \* what the latest reload() to return returned, and to whom
    last_true,  \* history: the latest reload() that returned reloaded=true
    ncalls,     \* the number of reload() calls made
    qpc,        \* where each chat request stands
    qsnap,      \* the snapshot id each request got from current()
    qin,        \* the request's public id and input text
    qmodel,     \* the model the request resolved to
    qview,      \* history: the tables of qsnap when the request got it
    qused,      \* history: the snapshot ids whose state the request used
    qret,       \* the outcome of the latest request to complete
    nreq,       \* the number of chat requests made
    snow,       \* the clock of the script runtime, in ticks since the first
                \* of the calls in progress was made
    stasks,     \* the ScriptTasks created so far, by task id
    squeue,     \* the sync_channel of the worker: the ids of the queued tasks
    sworker,    \* the worker thread: the task it is running, 0 when it waits
    sexec,      \* history: the tasks engine.call has returned for, in order
    spc,        \* where each run_script caller stands
    stid,       \* the task each caller made, 0 when it has none
    sret,       \* what the latest run_script to return returned, and to whom
    hpending,   \* InteractiveHub.pending: the ids of the entries in the map
    hlock,      \* the holder of the mutex on pending, if any
    hsent,      \* the events sent on the broadcast channel, in order
    hsubs,      \* the receivers of the broadcast channel
    hchan,      \* the oneshot reply channel of each interactive request
    hpc,        \* where the handler of each interactive request stands
    hcfg,       \* what the handler bound on entry: snapshot, model, mode
    hwait,      \* the ticks since the handler started its timer
    hout,       \* what the client of each interactive request has got
    opc,        \* where each caller of reply() stands
    oret,       \* what the latest reply() to return returned, and to whom
    nrep        \* the number of reply() calls made

pvars == <<fin, fout>>
kvars == <<now, snaps, published, wlock, last_start, rpc, rbuild, rcall, rret,
           last_true, ncalls>>
qvars == <<qpc, qsnap, qin, qmodel, qview, qused, qret, nreq>>
svars == <<snow, stasks, squeue, sworker, sexec, spc, stid, sret>>
hvars == <<hpending, hlock, hsent, hsubs, hchan, hpc, hcfg, hwait, hout, opc, oret,
           nrep>>
vars == <<pvars, kvars, qvars, svars, hvars>>

\* Option<T>: None is the empty sequence, Some(x) the one-element sequence
None == <<>>
Some(x) == <<x>>
is_some(o) == o # <<>>
unwrap(o) == o[1]

\* fout before the function has been applied
NoOut == [stage |-> "init"]

\* ------------------------------------------------------------------------
\* Bounds of the pure-function inputs
\* ------------------------------------------------------------------------
MaxTextLen == 2
MaxNeedleLen == 2
MaxConds == 2
MaxRules == 3
MaxProviders == 2

Chars == {"a", "A", "b"}

SeqsUpTo(S, n) == UNION {[1..k -> S] : k \in 0..n}

Texts == SeqsUpTo(Chars, MaxTextLen)
Needles == SeqsUpTo(Chars, MaxNeedleLen)

\* ------------------------------------------------------------------------
\* str helpers used by condition_matches
\* ------------------------------------------------------------------------
\* char::to_lowercase on the alphabet
lower_char(c) == IF c = "A" THEN "a" ELSE c

\* str::to_lowercase
to_lowercase(s) == [i \in 1..Len(s) |-> lower_char(s[i])]

\* str::starts_with
starts_with(s, p) == Len(p) <= Len(s) /\ SubSeq(s, 1, Len(p)) = p

\* str::ends_with
ends_with(s, p) ==
    Len(p) <= Len(s) /\ SubSeq(s, Len(s) - Len(p) + 1, Len(s)) = p

\* str::contains
contains(s, p) ==
    \E k \in 0..(Len(s) - Len(p)) : SubSeq(s, k + 1, k + Len(p)) = p

\* ------------------------------------------------------------------------
\* kernel.rs: compiled when-clauses
\* ------------------------------------------------------------------------
Sensitive == "sensitive"
Insensitive == "insensitive"

CondKinds == {"contains", "equals", "starts_with", "ends_with"}

\* CompiledCondition: the four string conditions carry (needle, case); a
\* regex carries its pattern and the i flag.  Only literal patterns are
\* modelled, for which Regex::is_match is an (optionally case-folded)
\* substring search.
StringConditions ==
    [kind : CondKinds, needle : Needles, case : {Sensitive, Insensitive}]

RegexConditions == [kind : {"regex"}, needle : Needles, flag_i : BOOLEAN]

is_match(re, text) ==
    IF re.flag_i
    THEN contains(to_lowercase(text), to_lowercase(re.needle))
    ELSE contains(text, re.needle)

condition_matches(cond, text, lower) ==
    CASE cond.kind = "contains" ->
            IF cond.case = Sensitive
            THEN contains(text, cond.needle)
            ELSE contains(lower, to_lowercase(cond.needle))
      [] cond.kind = "equals" ->
            IF cond.case = Sensitive
            THEN text = cond.needle
            ELSE lower = to_lowercase(cond.needle)
      [] cond.kind = "starts_with" ->
            IF cond.case = Sensitive
            THEN starts_with(text, cond.needle)
            ELSE starts_with(lower, to_lowercase(cond.needle))
      [] cond.kind = "ends_with" ->
            IF cond.case = Sensitive
            THEN ends_with(text, cond.needle)
            ELSE ends_with(lower, to_lowercase(cond.needle))
      [] cond.kind = "regex" -> is_match(cond, text)

compiled_matches_any_all(when, text) ==
    LET lower == to_lowercase(text)
        any_ok == \A i \in 1..Len(when.any) :
                      condition_matches(when.any[i], text, lower)
        all_ok == \A i \in 1..Len(when.all) :
                      condition_matches(when.all[i], text, lower)
        none_ok == \A i \in 1..Len(when.none) :
                       ~condition_matches(when.none[i], text, lower)
    IN  any_ok /\ all_ok /\ none_ok

compiled_matches(when, text) ==
    LET lower == to_lowercase(text)
        any_ok == IF when.any = <<>>
                  THEN TRUE
                  ELSE \E i \in 1..Len(when.any) :
                           condition_matches(when.any[i], text, lower)
        all_ok == \A i \in 1..Len(when.all) :
                      condition_matches(when.all[i], text, lower)
        none_ok == \A i \in 1..Len(when.none) :
                       ~condition_matches(when.none[i], text, lower)
    IN  any_ok /\ all_ok /\ none_ok

\* ------------------------------------------------------------------------
\* kernel.rs: compiling the when-clauses of a static model
\* ------------------------------------------------------------------------
\* Option<RuleWhen> / Option<CompiledWhen> of a rule without a when
NoWhen == [absent |-> TRUE]

\* parse_regex_literal accepts only the flags i, space and tab; the flags
\* of a literal are modelled as a sequence over {"i", " ", "x"}.
parse_regex_literal(source) ==
    IF \E k \in 1..Len(source.flags) : source.flags[k] \notin {"i", " "}
    THEN [ok |-> FALSE]
    ELSE [ok |-> TRUE, pattern |-> source.pattern,
          flag_i |-> \E k \in 1..Len(source.flags) : source.flags[k] = "i"]

\* compile_condition: case defaults to Sensitive; a regex literal that does
\* not parse is an error.
compile_condition(cond) ==
    IF cond.kind = "regex"
    THEN LET lit == parse_regex_literal(cond.regex)
         IN  IF lit.ok
             THEN [ok |-> TRUE,
                   c |-> [kind |-> "regex", needle |-> lit.pattern,
                          flag_i |-> lit.flag_i]]
             ELSE [ok |-> FALSE]
    ELSE [ok |-> TRUE,
          c |-> [kind |-> cond.kind, needle |-> cond.needle,
                 case |-> IF is_some(cond.case) THEN unwrap(cond.case)
                          ELSE Sensitive]]

compile_list(conds) ==
    [i \in 1..Len(conds) |-> compile_condition(conds[i])]

compile_when(when) ==
    LET any == compile_list(when.any)
        all == compile_list(when.all)
        none == compile_list(when.none)
        good(l) == \A i \in 1..Len(l) : l[i].ok
        strip(l) == [i \in 1..Len(l) |-> l[i].c]
    IN  IF good(any) /\ good(all) /\ good(none)
        THEN [ok |-> TRUE,
              when |-> [any |-> strip(any), all |-> strip(all),
                        none |-> strip(none)]]
        ELSE [ok |-> FALSE]

\* The least element of a non-empty set of naturals
Min(S) == CHOOSE m \in S : \A n \in S : m <= n

\* A build_match_cache that records no default index
build_match_cache_no_default(cfg) ==
    LET n == Len(cfg.rules)
        cw(i) == compile_when(cfg.rules[i].when)
        failed == \E i \in 1..n : cfg.rules[i].when # NoWhen /\ ~cw(i).ok
    IN  IF failed
        THEN [ok |-> FALSE]
        ELSE [ok |-> TRUE,
              compiled |-> [i \in 1..n |->
                               IF cfg.rules[i].when = NoWhen THEN NoWhen
                               ELSE cw(i).when],
              default_index |-> None]

\* build_match_cache: one Option<CompiledWhen> per rule, and the index
\* (from 0) of the first rule without a when that is marked default.
build_match_cache(cfg) ==
    LET n == Len(cfg.rules)
        cw(i) == compile_when(cfg.rules[i].when)
        failed == \E i \in 1..n : cfg.rules[i].when # NoWhen /\ ~cw(i).ok
        defaults == {i \in 1..n : cfg.rules[i].when = NoWhen
                                    /\ cfg.rules[i].default}
    IN  IF failed
        THEN [ok |-> FALSE]
        ELSE [ok |-> TRUE,
              compiled |-> [i \in 1..n |->
                               IF cfg.rules[i].when = NoWhen THEN NoWhen
                               ELSE cw(i).when],
              default_index |-> IF defaults = {} THEN None
                                ELSE Some(Min(defaults) - 1)]

\* ------------------------------------------------------------------------
\* config.rs: validate_static_rules
\* ------------------------------------------------------------------------
validate_static_rules_some_default(cfg) ==
    /\ cfg.rules # <<>>
    /\ \A i \in 1..Len(cfg.rules) :
          LET rule == cfg.rules[i]
          IN  /\ rule.replies # <<>>
              /\ IF rule.default
                 THEN rule.when = NoWhen
                 ELSE /\ rule.when # NoWhen
                      /\ ~(rule.when.any = <<>> /\ rule.when.all = <<>>
                              /\ rule.when.none = <<>>)
    /\ \E i \in 1..Len(cfg.rules) : cfg.rules[i].default

validate_static_rules(cfg) ==
    /\ cfg.rules # <<>>
    /\ \A i \in 1..Len(cfg.rules) :
          LET rule == cfg.rules[i]
          IN  /\ rule.replies # <<>>
              /\ IF rule.default
                 THEN rule.when = NoWhen
                 ELSE /\ rule.when # NoWhen
                      /\ ~(rule.when.any = <<>> /\ rule.when.all = <<>>
                              /\ rule.when.none = <<>>)
    /\ Cardinality({i \in 1..Len(cfg.rules) : cfg.rules[i].default}) = 1

\* ------------------------------------------------------------------------
\* handlers.rs: select_rule_index
\* ------------------------------------------------------------------------
\* The conditioned rules (indices from 0) whose when matches the text
matching(cache, text) ==
    {i \in 0..(Len(cache.compiled) - 1) :
        /\ cache.compiled[i + 1] # NoWhen
        /\ compiled_matches(cache.compiled[i + 1], text)}

select_rule_index_last_match(cfg, match_cache, user_text) ==
    IF ~is_some(match_cache) THEN None
    ELSE LET cache == unwrap(match_cache)
             hits == IF is_some(user_text)
                     THEN matching(cache, unwrap(user_text)) ELSE {}
         IN  IF hits # {}
             THEN Some(CHOOSE m \in hits : \A n \in hits : n <= m)
             ELSE IF is_some(cache.default_index) THEN cache.default_index
             ELSE IF Len(cfg.rules) = 1 THEN Some(0) ELSE None

select_rule_index(cfg, match_cache, user_text) ==
    IF ~is_some(match_cache) THEN None
    ELSE LET cache == unwrap(match_cache)
             hits == IF is_some(user_text)
                     THEN matching(cache, unwrap(user_text)) ELSE {}
         IN  IF hits # {}
             THEN Some(Min(hits))
             ELSE IF is_some(cache.default_index) THEN cache.default_index
             ELSE IF Len(cfg.rules) = 1 THEN Some(0) ELSE None

\* ------------------------------------------------------------------------
\* handlers.rs: public ids, the resolver and the alias router
\* ------------------------------------------------------------------------
\* str::trim, on strings whose only whitespace is the space
RECURSIVE trim_start(_)
trim_start(s) ==
    IF s # <<>> /\ Head(s) = " " THEN trim_start(Tail(s)) ELSE s

RECURSIVE trim_end(_)
trim_end(s) ==
    IF s # <<>> /\ s[Len(s)] = " "
    THEN trim_end(SubSeq(s, 1, Len(s) - 1)) ELSE s

trim(s) == trim_end(trim_start(s))

build_public_id(prefix, name) == prefix \o <<"/">> \o name

\* split_public_id: split at the first '/'; None when there is no '/' or
\* one half is blank.
split_public_id(value) ==
    LET slashes == {k \in 1..Len(value) : value[k] = "/"}
    IN  IF slashes = {} THEN None
        ELSE LET k == Min(slashes)
                 prefix == SubSeq(value, 1, k - 1)
                 name == SubSeq(value, k + 1, Len(value))
             IN  IF trim(prefix) = <<>> \/ trim(name) = <<>> THEN None
                 ELSE Some([prefix |-> prefix, name |-> name])

\* default_owned_by / the last resort of alias_owned_by
LlmLab == <<"l", "l", "m", "-", "l", "a", "b">>

\* The providers of an alias that are loaded and not disabled, in list order
enabled_providers(alias, providers) ==
    SelectSeq(alias.providers,
              LAMBDA id : id \in DOMAIN providers /\ ~providers[id].disabled)

\* The providers of an alias that are loaded, in list order
known_providers(alias, providers) ==
    SelectSeq(alias.providers, LAMBDA id : id \in DOMAIN providers)

alias_owned_by_claimed(alias, providers) ==
    IF is_some(alias.owned_by)
    THEN unwrap(alias.owned_by)
    ELSE IF enabled_providers(alias, providers) # <<>>
    THEN providers[Head(enabled_providers(alias, providers))].owned_by
    ELSE LlmLab

alias_owned_by(alias, providers) ==
    IF is_some(alias.owned_by) /\ trim(unwrap(alias.owned_by)) # <<>>
    THEN trim(unwrap(alias.owned_by))
    ELSE IF enabled_providers(alias, providers) # <<>>
    THEN providers[Head(enabled_providers(alias, providers))].owned_by
    ELSE IF known_providers(alias, providers) # <<>>
    THEN providers[Head(known_providers(alias, providers))].owned_by
    ELSE LlmLab

alias_has_enabled_provider(alias, providers) ==
    \E i \in 1..Len(alias.providers) :
        alias.providers[i] \in DOMAIN providers
            /\ ~providers[alias.providers[i]].disabled

Ok(v) == [ok |-> TRUE, v |-> v]
Err(kind, msg) == [ok |-> FALSE, kind |-> kind, msg |-> msg]

\* HashMap::entry(key).or_insert(0), read
counter(map, key) == IF key \in DOMAIN map THEN map[key] ELSE 0

\* HashMap insert / overwrite
put(map, key, val) ==
    [k \in DOMAIN map \cup {key} |-> IF k = key THEN val ELSE map[k]]

\* The history kept for a counter, empty before its first use
counter_log(map, key) == IF key \in DOMAIN map THEN map[key] ELSE <<>>

\* select_enabled_provider: the possible outcomes [res, rr], res the provider
\* id or an error and rr the alias counters afterwards.  round_robin has
\* one outcome, random one per enabled provider.
select_enabled_provider_no_advance(alias, providers, alias_rr) ==
    LET enabled == enabled_providers(alias, providers)
    IN  IF enabled = <<>>
        THEN {[res |-> Err("NotFound", "no enabled providers"), rr |-> alias_rr]}
        ELSE {[res |-> Ok(enabled[i]), rr |-> alias_rr] : i \in 1..Len(enabled)}

\* select_enabled_provider taking the counter of the alias before it looks
\* for an enabled provider
select_enabled_provider_counter_first(alias, providers, alias_rr) ==
    LET enabled == enabled_providers(alias, providers)
        idx == counter(alias_rr, alias.name)
    IN  IF enabled = <<>>
        THEN {[res |-> Err("NotFound", "no enabled providers"),
               rr |-> put(alias_rr, alias.name, idx)]}
        ELSE IF alias.strategy = "round_robin"
        THEN {[res |-> Ok(enabled[(idx % Len(enabled)) + 1]),
               rr |-> put(alias_rr, alias.name, (idx + 1) % Len(enabled))]}
        ELSE {[res |-> Ok(enabled[i]), rr |-> alias_rr] : i \in 1..Len(enabled)}

select_enabled_provider(alias, providers, alias_rr) ==
    LET enabled == enabled_providers(alias, providers)
    IN  IF enabled = <<>>
        THEN {[res |-> Err("NotFound", "no enabled providers"), rr |-> alias_rr]}
        ELSE IF alias.strategy = "round_robin"
        THEN LET idx == counter(alias_rr, alias.name)
             IN  {[res |-> Ok(enabled[(idx % Len(enabled)) + 1]),
                   rr |-> put(alias_rr, alias.name, (idx + 1) % Len(enabled))]}
        ELSE {[res |-> Ok(enabled[i]), rr |-> alias_rr] : i \in 1..Len(enabled)}

\* The model branch of resolve_public_model
resolve_model_branch(kernel, prefix, name) ==
    IF name \in DOMAIN kernel.models
    THEN IF kernel.models[name].disabled
         THEN Err("NotFound", "model not found")
         ELSE IF kernel.models[name].owned_by = prefix
         THEN Ok(name)
         ELSE Err("NotFound", "model not found")
    ELSE Err("NotFound", "model not found")

\* resolve_public_model: the possible outcomes [res, rr], res the id of the
\* resolved model or an error.
resolve_public_model(kernel, public_id, alias_rr) ==
    LET split == split_public_id(public_id)
    IN  IF ~is_some(split)
        THEN {[res |-> Err("BadRequest", "model must be prefix/name"),
               rr |-> alias_rr]}
        ELSE LET prefix == unwrap(split).prefix
                 name == unwrap(split).name
             IN  IF /\ name \in DOMAIN kernel.aliases
                    /\ ~kernel.aliases[name].disabled
                    /\ alias_owned_by(kernel.aliases[name], kernel.models) = prefix
                 THEN select_enabled_provider(kernel.aliases[name],
                                              kernel.models, alias_rr)
                 ELSE {[res |-> resolve_model_branch(kernel, prefix, name),
                        rr |-> alias_rr]}

\* ------------------------------------------------------------------------
\* config.rs: validate_aliases
\* ------------------------------------------------------------------------
validate_aliases_first_provider(aliases, model_ids) ==
    \A i \in 1..Len(aliases) :
        /\ trim(aliases[i].name) # <<>>
        /\ \A j \in 1..(i - 1) : aliases[j].name # aliases[i].name
        /\ aliases[i].providers # <<>>
        /\ aliases[i].providers[1] \in model_ids

validate_aliases(aliases, model_ids) ==
    \A i \in 1..Len(aliases) :
        /\ trim(aliases[i].name) # <<>>
        /\ \A j \in 1..(i - 1) : aliases[j].name # aliases[i].name
        /\ aliases[i].providers # <<>>
        /\ \A k \in 1..Len(aliases[i].providers) :
               aliases[i].providers[k] \in model_ids

\* KernelState::load, the alias map: one entry per catalog alias, by name
alias_map(aliases) ==
    [n \in {aliases[i].name : i \in 1..Len(aliases)} |->
        LET last == CHOOSE i \in 1..Len(aliases) :
                        /\ aliases[i].name = n
                        /\ \A j \in (i + 1)..Len(aliases) : aliases[j].name # n
        IN  aliases[last]]

\* ------------------------------------------------------------------------
\* handlers.rs: picking the reply of a static model
\* ------------------------------------------------------------------------
\* select_round_robin: the counter is keyed by format!("{}:{}", model_id,
\* rule_index); the rule index is all digits, so the key determines the
\* pair and the pair stands for it.
select_round_robin_shared_key(model_id, rule_index, rule, rr_state) ==
    LET key == <<model_id, 0>>
        idx == counter(rr_state, key)
        n == Len(rule.replies)
    IN  [reply |-> rule.replies[(idx % n) + 1],
         rr |-> put(rr_state, key, (idx + 1) % n)]

select_round_robin(model_id, rule_index, rule, rr_state) ==
    LET key == <<model_id, rule_index>>
        idx == counter(rr_state, key)
        n == Len(rule.replies)
    IN  [reply |-> rule.replies[(idx % n) + 1],
         rr |-> put(rr_state, key, (idx + 1) % n)]

\* select_static_reply: the possible outcomes [res, rr]; res carries the
\* selected rule index, the pick strategy and the reply.  random and
\* weighted (every weight is at least 1) may pick any reply of the rule.
select_static_reply(model_id, cfg, rr_state, match_cache, user_text) ==
    LET sel == select_rule_index(cfg, match_cache, user_text)
    IN  IF ~is_some(sel)
        THEN {[res |-> Err("Internal", "no matching rule"), rr |-> rr_state]}
        ELSE LET rule_idx == unwrap(sel)
                 rule == cfg.rules[rule_idx + 1]
                 pick == IF is_some(rule.pick) THEN unwrap(rule.pick)
                         ELSE IF is_some(cfg.pick) THEN unwrap(cfg.pick)
                         ELSE "round_robin"
             IN  IF pick = "round_robin"
                 THEN LET o == select_round_robin(model_id, rule_idx, rule, rr_state)
                      IN  {[res |-> Ok([rule_idx |-> rule_idx, pick |-> pick,
                                        reply |-> o.reply]),
                            rr |-> o.rr]}
                 ELSE {[res |-> Ok([rule_idx |-> rule_idx, pick |-> pick,
                                    reply |-> rule.replies[i]]),
                        rr |-> rr_state] : i \in 1..Len(rule.replies)}

\* ------------------------------------------------------------------------
\* The configurations a load can find on disk
\* ------------------------------------------------------------------------
Cond(kind, needle, case) == [kind |-> kind, needle |-> needle, case |-> case]

When(any, all, none) == [any |-> any, all |-> all, none |-> none]

Rule(default, when, replies) ==
    [default |-> default, when |-> when, pick |-> None, replies |-> replies]

StaticModel(id, owned_by, disabled, cfg) ==
    [id |-> id, owned_by |-> owned_by, disabled |-> disabled, kind |-> "static",
     static |-> Some(cfg), script |-> None]

ScriptModel(id, owned_by, init_ok) ==
    [id |-> id, owned_by |-> owned_by, disabled |-> FALSE, kind |-> "script",
     static |-> None, script |-> Some([init_ok |-> init_ok])]

Alias(name, providers, strategy) ==
    [name |-> name, owned_by |-> None, disabled |-> FALSE,
     providers |-> providers, strategy |-> strategy]

RuleA == Rule(FALSE, When(<<Cond("contains", <<"a">>, None)>>, <<>>, <<>>),
              <<"r1", "r2">>)
RuleB == Rule(FALSE, When(<<Cond("contains", <<"b">>, None)>>, <<>>, <<>>),
              <<"r3">>)
RuleDefault == Rule(TRUE, NoWhen, <<"d1", "d2">>)
RuleBadRegex ==
    Rule(FALSE, When(<<[kind |-> "regex",
                        regex |-> [pattern |-> <<"b">>, flags |-> <<"x">>]]>>,
                     <<>>, <<>>), <<"r6">>)

StaticM == StaticModel(<<"m">>, <<"l">>, FALSE,
                       [pick |-> None, rules |-> <<RuleA, RuleDefault>>])
StaticF == StaticModel(<<"f">>, <<"l">>, FALSE,
                       [pick |-> None, rules |-> <<RuleDefault>>])

\* A valid catalog: two static models behind a round-robin alias
CfgA == [models |-> <<StaticM, StaticF>>,
         aliases |-> <<Alias(<<"g">>, <<<<"m">>, <<"f">>>>, "round_robin")>>]

\* A valid catalog with a script model, and an alias that lists a provider
\* twice
CfgB == [models |-> <<ScriptModel(<<"s">>, <<"l">>, TRUE), StaticF, StaticM>>,
         aliases |-> <<Alias(<<"g">>, <<<<"f">>, <<"m">>, <<"f">>>>, "round_robin")>>]

\* Rejected by validate_static_rules: no default rule
CfgNoDefault ==
    [models |-> <<StaticModel(<<"m">>, <<"l">>, FALSE,
                              [pick |-> None, rules |-> <<RuleA>>])>>,
     aliases |-> <<>>]

\* The second model's regex does not compile
CfgBadRegex ==
    [models |-> <<ScriptModel(<<"s">>, <<"l">>, TRUE),
                  StaticModel(<<"m">>, <<"l">>, FALSE,
                              [pick |-> None,
                               rules |-> <<RuleBadRegex, RuleDefault>>])>>,
     aliases |-> <<>>]

\* The third model's script worker fails to initialise
CfgBadScript ==
    [models |-> <<StaticM, ScriptModel(<<"s">>, <<"l">>, TRUE),
                  ScriptModel(<<"t">>, <<"l">>, FALSE)>>,
     aliases |-> <<>>]

\* A valid catalog of two script models
CfgScripts ==
    [models |-> <<ScriptModel(<<"s">>, <<"l">>, TRUE),
                  ScriptModel(<<"t">>, <<"l">>, TRUE)>>,
     aliases |-> <<>>]

DiskConfigs == {CfgA, CfgB, CfgNoDefault, CfgBadRegex, CfgBadScript}

\* ReasoningMode
ReasoningModes == {"none", "prefix", "field"}

\* Default for ReasoningMode, taken where the config has no response
\* section
default_reasoning_mode == "field"

reasoning_mode(cfg) ==
    IF "response" \in DOMAIN cfg THEN cfg.response.reasoning_mode
    ELSE default_reasoning_mode

\* ------------------------------------------------------------------------
\* config.rs / kernel.rs: loading a snapshot
\* ------------------------------------------------------------------------
\* load_app_config: every static model passes validate_static_rules, ids
\* are unique, there is at least one model, and the aliases are valid.
\* ModelCatalog::default_model
default_model(cfg) ==
    IF "default_model" \in DOMAIN cfg THEN Some(cfg.default_model) ELSE None

load_app_config(c) ==
    /\ c.models # <<>>
    /\ \A i \in 1..Len(c.models) :
          /\ \A j \in 1..(i - 1) : c.models[j].id # c.models[i].id
          /\ c.models[i].kind = "static" =>
                 validate_static_rules(unwrap(c.models[i].static))
    /\ validate_aliases(c.aliases, {c.models[i].id : i \in 1..Len(c.models)})

\* start_engine: the worker thread reports whether ScriptEngine::new succeeded
start_engine(model) == unwrap(model.script).init_ok

NoBuild == [active |-> FALSE]

\* The state of KernelState::load before its loop over the models
begin_load(c) ==
    [active |-> TRUE, cfg |-> c, done |-> 0, engines |-> {},
     match_cache |-> <<>>, model_map |-> <<>>]

\* One iteration of the loop of KernelState::load; ok is FALSE when
\* start_engine or build_match_cache fails.
load_model_skip_failure(b) ==
    LET model == b.cfg.models[b.done + 1]
        inserted == [b EXCEPT !.done = b.done + 1,
                              !.model_map = put(b.model_map, model.id, model)]
    IN  [ok |-> TRUE, b |-> inserted]

load_model(b) ==
    LET model == b.cfg.models[b.done + 1]
        inserted == [b EXCEPT !.done = b.done + 1,
                              !.model_map = put(b.model_map, model.id, model)]
    IN  CASE model.kind = "script" ->
                IF start_engine(model)
                THEN [ok |-> TRUE,
                      b |-> [inserted EXCEPT !.engines = b.engines \cup {model.id}]]
                ELSE [ok |-> FALSE]
          [] model.kind = "static" ->
                LET cache == build_match_cache(unwrap(model.static))
                IN  IF cache.ok
                    THEN [ok |-> TRUE,
                          b |-> [inserted EXCEPT
                                    !.match_cache = put(b.match_cache, model.id, cache)]]
                    ELSE [ok |-> FALSE]
          [] OTHER -> [ok |-> TRUE, b |-> inserted]

\* The KernelState that load returns: the tables, and empty counters.
\* alias_log and rule_log are history: the providers and replies that the
\* round-robin counters of this snapshot handed out, in order.
new_state(b) ==
    [models |-> b.model_map, aliases |-> alias_map(b.cfg.aliases),
     match_cache |-> b.match_cache, engines |-> b.engines,
     config |-> [response |-> [reasoning_mode |-> reasoning_mode(b.cfg)]],
     catalog |-> [default_model |-> default_model(b.cfg)],
     rr_state |-> <<>>, alias_rr |-> <<>>,
     alias_log |-> <<>>, rule_log |-> <<>>]

\* The immutable part of a KernelState
tables(k) == [models |-> k.models, aliases |-> k.aliases,
              match_cache |-> k.match_cache, engines |-> k.engines]

\* The loop of KernelState::load from iteration b.done + 1 on: the first
\* failure ends it with the error (the ? operator), and `done` tells how
\* many models had been processed by then.
RECURSIVE load_models(_)
load_models(b) ==
    IF b.done = Len(b.cfg.models)
    THEN [ok |-> TRUE, state |-> new_state(b), done |-> b.done]
    ELSE LET step == load_model(b)
         IN  IF step.ok THEN load_models(step.b)
             ELSE [ok |-> FALSE, done |-> b.done]

\* KernelState::load
load(c) ==
    IF load_app_config(c) THEN load_models(begin_load(c))
    ELSE [ok |-> FALSE, done |-> 0]

\* ------------------------------------------------------------------------
\* scripting.rs: the worker of a script model and the callers of run_script
\* ------------------------------------------------------------------------
\* Bounds of the script model.  Time is counted in ticks; ScriptTimeout is
\* script.timeout_ms of the models in ticks, and QueueBound stands for the
\* capacity of the sync_channel.
ScriptTimeout == 1
QueueBound == 1
MaxTasks == 2
MaxScriptTime == 3

Callers == {"c1", "c2"}

\* The script models of the snapshot: one engine, with its own channel and
\* worker thread, per model of kind script
ScriptModels == load(CfgScripts).state.engines

\* The worker thread has left its loop
Exited == -1

\* History kept with an outcome: late tells that the result returned was
\* produced after the deadline, waited the time from the start of the timer
\* to the return
NoScriptRet == [who |-> "none", kind |-> "none", task |-> 0, late |-> FALSE,
                waited |-> 0]

\* The state after start_engine: each worker waits on its empty channel
ScriptStart ==
    /\ snow = 0
    /\ stasks = <<>>
    /\ squeue = [m \in ScriptModels |-> <<>>]
    /\ sworker = [m \in ScriptModels |-> 0]
    /\ sexec = [m \in ScriptModels |-> <<>>]
    /\ spc = [c \in Callers |-> "idle"]
    /\ stid = [c \in Callers |-> 0]
    /\ sret = NoScriptRet

\* ------------------------------------------------------------------------
\* streaming.rs / handlers.rs: from a reply to the events of an SSE stream
\* ------------------------------------------------------------------------
DEFAULT_STATIC_CHUNK == 8
DEFAULT_SCRIPT_CHUNK == 12
DEFAULT_INTERACTIVE_CHUNK == 8

\* stream_chunk_size, given the kind of the model and the
\* stream_chunk_chars of its config
stream_chunk_size(kind, stream_chunk_chars) ==
    IF is_some(stream_chunk_chars) THEN unwrap(stream_chunk_chars)
    ELSE CASE kind = "static" -> DEFAULT_STATIC_CHUNK
           [] kind = "script" -> DEFAULT_SCRIPT_CHUNK
           [] OTHER -> DEFAULT_INTERACTIVE_CHUNK

usize_min(a, b) == IF a < b THEN a ELSE b

\* The while loop of chunk_text, from `start` on
RECURSIVE chunk_loop(_, _, _)
chunk_loop(chars, start, chunk_size) ==
    IF start < Len(chars)
    THEN LET end == usize_min(start + chunk_size, Len(chars))
         IN  <<SubSeq(chars, start + 1, end)>> \o chunk_loop(chars, end, chunk_size)
    ELSE <<>>

\* chunk_text without the chunk that is shorter than chunk_size
chunk_text_whole_chunks(text, chunk_size) ==
    IF chunk_size = 0 THEN <<text>>
    ELSE [i \in 1..(Len(text) \div chunk_size) |->
             SubSeq(text, (i - 1) * chunk_size + 1, i * chunk_size)]

chunk_text(text, chunk_size) ==
    IF chunk_size = 0 THEN <<text>> ELSE chunk_loop(text, 0, chunk_size)

ThinkOpen == <<"<", "t", "h", "i", "n", "k", ">">>
ThinkClose == <<"<", "/", "t", "h", "i", "n", "k", ">", "\n">>

\* apply_reasoning: the match on (reasoning, mode), arm by arm
apply_reasoning_prefix_unless_field(content, reasoning, mode) ==
    CASE is_some(reasoning) /\ mode = "field" ->
            [content |-> content, reasoning |-> reasoning]
      [] is_some(reasoning) ->
            [content |-> ThinkOpen \o unwrap(reasoning) \o ThinkClose \o content,
             reasoning |-> None]
      [] OTHER -> [content |-> content, reasoning |-> None]

apply_reasoning(content, reasoning, mode) ==
    CASE is_some(reasoning) /\ mode = "prefix" ->
            [content |-> ThinkOpen \o unwrap(reasoning) \o ThinkClose \o content,
             reasoning |-> None]
      [] is_some(reasoning) /\ mode = "field" ->
            [content |-> content, reasoning |-> reasoning]
      [] OTHER -> [content |-> content, reasoning |-> None]

\* build_interactive_sse_stream: its own match on (reply.reasoning,
\* reasoning_mode), arm by arm
interactive_reasoning_no_newline(content, reasoning, mode) ==
    CASE is_some(reasoning) /\ mode = "prefix" ->
            [content |-> ThinkOpen \o unwrap(reasoning) \o SubSeq(ThinkClose, 1, 8)
                         \o content,
             reasoning |-> None]
      [] is_some(reasoning) /\ mode = "field" ->
            [content |-> content, reasoning |-> reasoning]
      [] OTHER -> [content |-> content, reasoning |-> None]

interactive_reasoning(content, reasoning, mode) ==
    CASE is_some(reasoning) /\ mode = "prefix" ->
            [content |-> ThinkOpen \o unwrap(reasoning) \o ThinkClose \o content,
             reasoning |-> None]
      [] is_some(reasoning) /\ mode = "field" ->
            [content |-> content, reasoning |-> reasoning]
      [] mode = "none" -> [content |-> content, reasoning |-> None]
      [] OTHER -> [content |-> content, reasoning |-> None]

\* The payloads of the SSE events: a chat.completion.chunk with its delta
\* and finish_reason, or the literal [DONE]
Chunk(delta, finish_reason) ==
    [json |-> TRUE, delta |-> delta, finish_reason |-> finish_reason]
role_chunk == Chunk([role |-> "assistant"], None)
reasoning_chunk(part) == Chunk([reasoning_content |-> part], None)
content_chunk(part) == Chunk([content |-> part], None)
\* "delta": {}
EmptyDelta == <<>>
end_chunk(finish_reason) == Chunk(EmptyDelta, Some(finish_reason))
DoneEvent == [json |-> FALSE, data |-> "[DONE]"]

reasoning_chunks(text, chunk_size) ==
    LET parts == chunk_text(text, chunk_size)
    IN  [i \in 1..Len(parts) |-> reasoning_chunk(parts[i])]

content_chunks(text, chunk_size) ==
    LET parts == chunk_text(text, chunk_size)
    IN  [i \in 1..Len(parts) |-> content_chunk(parts[i])]

\* build_sse_stream: the events it yields, in order
build_sse_stream_content_first(content, reasoning, finish_reason, mode, chunk_size) ==
    <<role_chunk>>
    \o content_chunks(content, chunk_size)
    \o (IF is_some(reasoning) /\ mode = "field"
        THEN reasoning_chunks(unwrap(reasoning), chunk_size) ELSE <<>>)
    \o <<end_chunk(finish_reason), DoneEvent>>

build_sse_stream(content, reasoning, finish_reason, mode, chunk_size) ==
    <<role_chunk>>
    \o (IF is_some(reasoning) /\ mode = "field"
        THEN reasoning_chunks(unwrap(reasoning), chunk_size) ELSE <<>>)
    \o content_chunks(content, chunk_size)
    \o <<end_chunk(finish_reason), DoneEvent>>

\* InteractiveReply
InteractiveReply(content, reasoning, finish_reason) ==
    [content |-> content, reasoning |-> reasoning, finish_reason |-> finish_reason]

\* The reply the handler makes up when the wait ends without a reply
fallback_reply_empty(fallback_text) == InteractiveReply(<<>>, None, None)

fallback_reply(fallback_text) == InteractiveReply(fallback_text, None, Some("stop"))

unwrap_or(o, default) == IF is_some(o) THEN unwrap(o) ELSE default

\* build_interactive_sse_stream up to its wait for the reply
interactive_prelude_role_only(fake_reasoning, mode, chunk_size) == <<role_chunk>>

interactive_prelude(fake_reasoning, mode, chunk_size) ==
    <<role_chunk>>
    \o (IF is_some(fake_reasoning) /\ mode = "field"
        THEN reasoning_chunks(unwrap(fake_reasoning), chunk_size) ELSE <<>>)

\* build_interactive_sse_stream after the wait, given the reply it got or
\* made up
interactive_rest(reply, mode, chunk_size) ==
    LET finish_reason == unwrap_or(reply.finish_reason, "stop")
        out == interactive_reasoning(reply.content, reply.reasoning, mode)
    IN  (IF is_some(out.reasoning)
         THEN reasoning_chunks(unwrap(out.reasoning), chunk_size) ELSE <<>>)
        \o content_chunks(out.content, chunk_size)
        \o <<end_chunk(finish_reason), DoneEvent>>

\* The body of a non-streaming chat completion
completion_body(content, reasoning_field, finish_reason) ==
    [content |-> content, reasoning_content |-> reasoning_field,
     finish_reason |-> finish_reason]

\* wait_interactive_reply's Reply, then the body chat_completions makes of it
interactive_body(reply, mode) ==
    LET finish_reason == unwrap_or(reply.finish_reason, "stop")
        out == apply_reasoning(reply.content, reply.reasoning, mode)
    IN  completion_body(out.content, out.reasoning, finish_reason)

\* ------------------------------------------------------------------------
\* interactive.rs: the hub of the interactive models
\* ------------------------------------------------------------------------
\* Bounds of the hub model.  HubTimeout is interactive.timeout_ms in ticks,
\* EventCap stands for the capacity of the broadcast channel, MaxHubReqs
\* and MaxReplies bound the interactive requests and the reply() calls made.
HubTimeout == 1
EventCap == 1
MaxHubReqs == 1
MaxReplies == 2

\* The request ids: the uuid chat_completions gives the n-th request
RequestIds == 1..MaxHubReqs

Operators == {"o1", "o2"}
Subscribers == {"u1"}

InteractiveModel(id, owned_by, fake_reasoning, fallback_text, stream_chunk_chars) ==
    [id |-> id, owned_by |-> owned_by, disabled |-> FALSE, kind |-> "interactive",
     static |-> None, script |-> None,
     interactive |-> Some([timeout_ms |-> HubTimeout,
                           stream_chunk_chars |-> stream_chunk_chars,
                           fake_reasoning |-> fake_reasoning,
                           fallback_text |-> fallback_text])]

\* A config directory with two interactive models, one of them with
\* fake_reasoning, and no response section
CfgHub ==
    [models |-> <<InteractiveModel(<<"i">>, <<"l">>, Some(<<"f", "g">>), <<"o">>,
                                   Some(1)),
                  InteractiveModel(<<"j">>, <<"l">>, None, <<"o">>, None)>>,
     aliases |-> <<>>]

\* The reply each operator posts
HubPayload(o) ==
    IF o = "o1" THEN InteractiveReply(<<"p">>, None, None)
    ELSE InteractiveReply(<<"q">>, Some(<<"r">>), Some("length"))

\* InteractiveEvent
InteractiveEvent(type, id) == [type |-> type, id |-> id]

NoHubCfg == [snap |-> 0]
NoChannel == [made |-> FALSE]
NoOutput == [events |-> <<>>, body |-> None, complete |-> FALSE, timed_out |-> FALSE]
OperatorIdle == [pc |-> "idle"]
NoReplyRet == [who |-> "none", id |-> 0, found |-> FALSE]
NoReceiver == [active |-> FALSE]

\* The state after InteractiveHub::new(): nothing pending, no receiver of
\* the broadcast channel left
HubStart ==
    /\ hpending = {}
    /\ hlock = None
    /\ hsent = <<>>
    /\ hsubs = [s \in Subscribers |-> NoReceiver]
    /\ hchan = [r \in RequestIds |-> NoChannel]
    /\ hpc = [r \in RequestIds |-> "new"]
    /\ hcfg = [r \in RequestIds |-> NoHubCfg]
    /\ hwait = [r \in RequestIds |-> 0]
    /\ hout = [r \in RequestIds |-> NoOutput]
    /\ opc = [o \in Operators |-> OperatorIdle]
    /\ oret = NoReplyRet
    /\ nrep = 0

\* ------------------------------------------------------------------------
\* Spec: the kernel handle under concurrent reload() callers and chat
\* requests
\* ------------------------------------------------------------------------
RELOAD_DEBOUNCE == 1500

\* Bounds of the kernel model
TickMs == 750
MaxTime == 1500
MaxReloadCalls == 3
MaxRequests == 1
MaxRouted == 4

Reloaders == {"r1", "r2"}
Requests == {"q1", "q2"}

\* What the chat requests ask for: the alias or a model with a text that
\* matches a conditioned rule or none, a model under a foreign prefix, and
\* an id without a slash.
ChatInputs ==
    {[public_id |-> build_public_id(<<"l">>, <<"g">>), text |-> <<"a">>],
     [public_id |-> build_public_id(<<"l">>, <<"m">>), text |-> <<"a">>],
     [public_id |-> build_public_id(<<"l">>, <<"m">>), text |-> <<"b">>],
     [public_id |-> build_public_id(<<"k">>, <<"m">>), text |-> <<"a">>],
     [public_id |-> <<"m">>, text |-> <<"a">>]}

NoCall == [at |-> 0, after |-> None]

NoRet == [who |-> "none", kind |-> "none", reloaded |-> FALSE, state |-> 0,
          built |-> FALSE, done |-> 0, call |-> NoCall, prev |-> None]

NoInput == [public_id |-> <<>>, text |-> <<>>]
NoView == [kind |-> "none"]
NoReply == [who |-> "none", kind |-> "none"]

\* The state after KernelHandle::new(c)
KernelStartWith(c) ==
    /\ now = 0
    /\ snaps = <<load(c).state>>
    /\ published = 1
    /\ wlock = None
    /\ last_start = None
    /\ rpc = [r \in Reloaders |-> "idle"]
    /\ rbuild = [r \in Reloaders |-> NoBuild]
    /\ rcall = [r \in Reloaders |-> NoCall]
    /\ rret = NoRet
    /\ last_true = None
    /\ ncalls = 0

KernelStart == KernelStartWith(CfgA)

RequestsStart ==
    /\ qpc = [q \in Requests |-> "idle"]
    /\ qsnap = [q \in Requests |-> 0]
    /\ qin = [q \in Requests |-> NoInput]
    /\ qmodel = [q \in Requests |-> <<>>]
    /\ qview = [q \in Requests |-> NoView]
    /\ qused = [q \in Requests |-> {}]
    /\ qret = NoReply
    /\ nreq = 0

PureIdle ==
    /\ fin = [op |-> "none"]
    /\ fout = NoOut

Init ==
    /\ PureIdle
    /\ KernelStart
    /\ RequestsStart
    /\ ScriptStart
    /\ HubStart

\* The passing of time
Tick ==
    /\ now + TickMs <= MaxTime
    /\ now' = now + TickMs
    /\ UNCHANGED <<snaps, published, wlock, last_start, rpc, rbuild, rcall,
                   rret, last_true, ncalls, pvars, svars, hvars, qvars>>

\* is_debounced: under the reload-state mutex.  TRUE when the last recorded
\* start is less than RELOAD_DEBOUNCE old; otherwise FALSE, and the start
\* is recorded only if one had been recorded before.
is_debounced_never ==
    [debounced |-> FALSE, last_start |-> Some(now)]

\* An is_debounced that records a start also when none was recorded before
is_debounced_records_first ==
    IF ~is_some(last_start)
    THEN [debounced |-> FALSE, last_start |-> Some(now)]
    ELSE IF now - unwrap(last_start) < RELOAD_DEBOUNCE
    THEN [debounced |-> TRUE, last_start |-> last_start]
    ELSE [debounced |-> FALSE, last_start |-> Some(now)]

is_debounced ==
    IF ~is_some(last_start)
    THEN [debounced |-> FALSE, last_start |-> last_start]
    ELSE IF now - unwrap(last_start) < RELOAD_DEBOUNCE
    THEN [debounced |-> TRUE, last_start |-> last_start]
    ELSE [debounced |-> FALSE, last_start |-> Some(now)]

\* reload(), entry: the debounce check
ReloadCall(r) ==
    /\ rpc[r] = "idle"
    /\ ncalls < MaxReloadCalls
    /\ ncalls' = ncalls + 1
    /\ last_start' = is_debounced.last_start
    /\ rpc' = [rpc EXCEPT ![r] = IF is_debounced.debounced THEN "debounced"
                                  ELSE "load"]
    /\ rcall' = [rcall EXCEPT ![r] = [at |-> now, after |-> last_true]]
    /\ UNCHANGED <<now, snaps, published, wlock, rbuild, rret, last_true,
                   pvars, svars, hvars, qvars>>

\* reload(), debounced: return {state: current(), reloaded: false}
ReloadDebounced(r) ==
    /\ rpc[r] = "debounced"
    /\ wlock = None
    /\ rret' = [who |-> r, kind |-> "ok", reloaded |-> FALSE, state |-> published,
                built |-> FALSE, done |-> 0, call |-> rcall[r], prev |-> last_true]
    /\ rpc' = [rpc EXCEPT ![r] = "idle"]
    /\ rcall' = [rcall EXCEPT ![r] = NoCall]
    /\ UNCHANGED <<now, snaps, published, wlock, last_start, rbuild, last_true,
                   ncalls, pvars, svars, hvars, qvars>>

\* reload(): KernelState::load on what is on disk now.  A failure is
\* returned to the caller (the ? operator) and what was built is dropped;
\* a success is wrapped in an Arc.
Load(r) ==
    /\ rpc[r] = "load"
    /\ \E c \in DiskConfigs :
          LET built == load(c)
          IN  IF built.ok
              THEN /\ snaps' = Append(snaps, built.state)
                   /\ rbuild' = [rbuild EXCEPT
                                    ![r] = [active |-> TRUE, state |-> Len(snaps) + 1]]
                   /\ rpc' = [rpc EXCEPT ![r] = "swap"]
                   /\ UNCHANGED <<rret, rcall>>
              ELSE /\ rret' = [who |-> r, kind |-> "Internal", reloaded |-> FALSE,
                               state |-> 0, built |-> TRUE, done |-> built.done,
                               call |-> rcall[r], prev |-> last_true]
                   /\ rpc' = [rpc EXCEPT ![r] = "idle"]
                   /\ rcall' = [rcall EXCEPT ![r] = NoCall]
                   /\ UNCHANGED <<snaps, rbuild>>
    /\ UNCHANGED <<now, published, wlock, last_start, last_true, ncalls,
                   pvars, svars, hvars, qvars>>

\* A reload() that takes the write lock first and builds under it
Swap_then_load(r) ==
    /\ rpc[r] = "swap"
    /\ wlock = None
    /\ wlock' = Some(r)
    /\ rpc' = [rpc EXCEPT ![r] = "load"]
    /\ UNCHANGED <<now, snaps, published, last_start, rbuild, rcall, rret,
                   last_true, ncalls, pvars, svars, hvars, qvars>>

\* reload(): take the write lock and store the new pointer
Swap(r) ==
    /\ rpc[r] = "swap"
    /\ wlock = None
    /\ wlock' = Some(r)
    /\ published' = rbuild[r].state
    /\ rpc' = [rpc EXCEPT ![r] = "record"]
    /\ UNCHANGED <<now, snaps, last_start, rbuild, rcall, rret, last_true,
                   ncalls, pvars, svars, hvars, qvars>>

\* reload(): record the start under the reload-state mutex and return
\* {state, reloaded: true}, releasing both locks
Record(r) ==
    /\ rpc[r] = "record"
    /\ last_start' = Some(now)
    /\ wlock' = None
    /\ last_true' = Some([at |-> now, state |-> rbuild[r].state])
    /\ rret' = [who |-> r, kind |-> "ok", reloaded |-> TRUE,
                state |-> rbuild[r].state, built |-> TRUE, done |-> 0,
                call |-> rcall[r], prev |-> last_true]
    /\ rbuild' = [rbuild EXCEPT ![r] = NoBuild]
    /\ rpc' = [rpc EXCEPT ![r] = "idle"]
    /\ rcall' = [rcall EXCEPT ![r] = NoCall]
    /\ UNCHANGED <<now, snaps, published, ncalls, pvars, svars, hvars, qvars>>

\* The snapshot a request works on: the one it bound to `kernel` on entry
request_state_current(q) == published
request_state_first(q) == 1

request_state(q) == qsnap[q]

\* chat_completions, entry: current(), then the shape of the model id
BeginRequest(q, inputs) ==
    /\ qpc[q] = "idle"
    /\ wlock = None
    /\ nreq' = nreq + 1
    /\ \E in \in inputs :
          IF is_some(split_public_id(in.public_id))
          THEN /\ qpc' = [qpc EXCEPT ![q] = "resolve"]
               /\ qin' = [qin EXCEPT ![q] = in]
               /\ qsnap' = [qsnap EXCEPT ![q] = published]
               /\ qview' = [qview EXCEPT ![q] = tables(snaps[published])]
               /\ UNCHANGED qret
          ELSE /\ qret' = [who |-> q, kind |-> "err", snap |-> published,
                           used |-> {},
                           res |-> Err("BadRequest", "model must be prefix/name")]
               /\ UNCHANGED <<qpc, qin, qsnap, qview>>
    /\ UNCHANGED <<qmodel, qused, pvars, svars, hvars, kvars>>

\* The requests made while the kernel reloads: one client, asking for the
\* alias and for a model
ReloadTimeInputs ==
    {in \in ChatInputs : in.public_id = build_public_id(<<"l">>, <<"g">>)
                          \/ in.text = <<"b">>}

ReqBegin(q) ==
    /\ q = "q1"
    /\ nreq < MaxRequests
    /\ BeginRequest(q, ReloadTimeInputs)

\* The alias that resolve_public_model routes this public id through, if any
routed_alias(kernel, public_id) ==
    LET split == unwrap(split_public_id(public_id))
    IN  IF /\ split.name \in DOMAIN kernel.aliases
           /\ ~kernel.aliases[split.name].disabled
           /\ alias_owned_by(kernel.aliases[split.name], kernel.models) = split.prefix
        THEN Some(split.name) ELSE None

\* The request is over: its task's bindings are dropped
Finish(q) ==
    /\ qpc' = [qpc EXCEPT ![q] = "idle"]
    /\ qin' = [qin EXCEPT ![q] = NoInput]
    /\ qsnap' = [qsnap EXCEPT ![q] = 0]
    /\ qmodel' = [qmodel EXCEPT ![q] = <<>>]
    /\ qview' = [qview EXCEPT ![q] = NoView]
    /\ qused' = [qused EXCEPT ![q] = {}]

\* chat_completions: resolve_public_model on the request's snapshot
ReqResolve(q) ==
    /\ qpc[q] = "resolve"
    /\ LET s == request_state(q)
           k == snaps[s]
           via == routed_alias(k, qin[q].public_id)
       IN  \E o \in resolve_public_model(k, qin[q].public_id, k.alias_rr) :
              /\ snaps' = [snaps EXCEPT
                    ![s].alias_rr = o.rr,
                    ![s].alias_log =
                        IF is_some(via) /\ o.res.ok
                        THEN put(k.alias_log, unwrap(via),
                                 Append(counter_log(k.alias_log, unwrap(via)), o.res.v))
                        ELSE k.alias_log]
              /\ IF o.res.ok
                 THEN /\ qmodel' = [qmodel EXCEPT ![q] = o.res.v]
                      /\ qpc' = [qpc EXCEPT ![q] = "reply"]
                      /\ qused' = [qused EXCEPT ![q] = qused[q] \cup {s}]
                      /\ UNCHANGED <<qret, qin, qsnap, qview>>
                 ELSE /\ qret' = [who |-> q, kind |-> "err", snap |-> qsnap[q],
                                  used |-> qused[q] \cup {s}, res |-> o.res]
                      /\ Finish(q)
    /\ UNCHANGED <<nreq, pvars, svars, hvars, now, published, wlock,
                   last_start, rpc, rbuild, rcall, rret, last_true, ncalls>>

\* chat_completions: generate_reply on the request's snapshot.  A script
\* model hands the request to its worker (SpecScript); a static model
\* selects a rule and picks a reply.
ReqReply(q) ==
    /\ qpc[q] = "reply"
    /\ LET s == request_state(q)
           k == snaps[s]
           model == k.models[qmodel[q]]
       IN  IF model.kind = "static"
           THEN \E o \in select_static_reply(
                            model.id, unwrap(model.static), k.rr_state,
                            IF model.id \in DOMAIN k.match_cache
                            THEN Some(k.match_cache[model.id]) ELSE None,
                            Some(qin[q].text)) :
                   /\ snaps' = [snaps EXCEPT
                         ![s].rr_state = o.rr,
                         ![s].rule_log =
                             IF o.res.ok /\ o.res.v.pick = "round_robin"
                             THEN LET key == <<model.id, o.res.v.rule_idx>>
                                  IN  put(k.rule_log, key,
                                          Append(counter_log(k.rule_log, key),
                                                 o.res.v.reply))
                             ELSE k.rule_log]
                   /\ qret' = [who |-> q, kind |-> IF o.res.ok THEN "reply" ELSE "err",
                               snap |-> qsnap[q], used |-> qused[q] \cup {s},
                               res |-> o.res]
           ELSE /\ qret' = [who |-> q, kind |-> "script", snap |-> qsnap[q],
                            used |-> qused[q] \cup {s}, res |-> Ok(model.id)]
                /\ UNCHANGED snaps
    /\ Finish(q)
    /\ UNCHANGED <<nreq, pvars, svars, hvars, now, published, wlock,
                   last_start, rpc, rbuild, rcall, rret, last_true, ncalls>>

Next ==
    \/ Tick
    \/ \E r \in Reloaders :
          \/ ReloadCall(r)
          \/ ReloadDebounced(r)
          \/ Load(r)
          \/ Swap(r)
          \/ Record(r)
    \/ \E q \in Requests :
          \/ ReqBegin(q)
          \/ ReqResolve(q)
          \/ ReqReply(q)

Spec == Init /\ [][Next]_vars

\* ------------------------------------------------------------------------
\* SpecRoute: chat requests on one published snapshot, two at a time
\* ------------------------------------------------------------------------
RouteInit ==
    /\ PureIdle
    /\ KernelStartWith(CfgA) \/ KernelStartWith(CfgB)
    /\ RequestsStart
    /\ ScriptStart
    /\ HubStart

RouteBegin(q) ==
    /\ nreq < MaxRouted
    /\ BeginRequest(q, ChatInputs)

RouteNext ==
    \E q \in Requests :
       \/ RouteBegin(q)
       \/ ReqResolve(q)
       \/ ReqReply(q)

SpecRoute == RouteInit /\ [][RouteNext]_vars

\* ------------------------------------------------------------------------
\* SpecScript: run_script callers, the bounded channel and the worker of
\* one script model
\* ------------------------------------------------------------------------
\* A ScriptTask for model m: the oneshot channel resp is "pending" until
\* the worker sends a result over it; rx tells whether its receiver is
\* still held; enq is the time at which the task entered the channel and
\* the timer of the caller was started.  History: sub is the time at which
\* run_script was entered, seq the task's place in the order of entry to
\* the channel; state and result follow the task through the worker, and
\* late tells that its result was produced after the caller's deadline.
\* The times last as long as the call of run_script.
new_task(c, m) ==
    [caller |-> c, model |-> m, sub |-> snow, enq |-> None, seq |-> 0,
     state |-> "created", resp |-> "pending", rx |-> "open",
     result |-> "none", late |-> FALSE]

\* What is kept of a task once its caller has returned and the worker has
\* finished with it: its model, its place in the order and whether it
\* was finished late
settled(task) ==
    IF task.rx = "dropped" /\ task.state = "done"
    THEN [caller |-> "none", model |-> task.model, sub |-> 0, enq |-> None,
          seq |-> task.seq, state |-> "done", resp |-> "pending",
          rx |-> "dropped", result |-> "none", late |-> task.late]
    ELSE task

\* The tasks that have entered the channel of model m
entered(tasks, m) ==
    {i \in 1..Len(tasks) : tasks[i].model = m /\ tasks[i].seq > 0}

\* sender.send: the task enters the channel, and the caller goes on to
\* await the reply under tokio::time::timeout
enqueue(c, id, tasks) ==
    LET m == tasks[id].model
    IN  /\ squeue' = [squeue EXCEPT ![m] = Append(squeue[m], id)]
        /\ stasks' = [tasks EXCEPT ![id].enq = Some(snow),
                                   ![id].seq = Cardinality(entered(tasks, m)) + 1,
                                   ![id].state = "queued"]
        /\ spc' = [spc EXCEPT ![c] = "waiting"]

\* run_script: make the task and its oneshot channel and send it; send
\* blocks while the channel is full
Submit(c) ==
    /\ spc[c] = "idle"
    /\ Len(stasks) < MaxTasks
    /\ \E m \in ScriptModels :
          LET id == Len(stasks) + 1
              tasks == Append(stasks, new_task(c, m))
          IN  /\ stid' = [stid EXCEPT ![c] = id]
              /\ IF Len(squeue[m]) < QueueBound
                 THEN enqueue(c, id, tasks)
                 ELSE /\ stasks' = tasks
                      /\ spc' = [spc EXCEPT ![c] = "blocked"]
                      /\ UNCHANGED squeue
    /\ UNCHANGED <<snow, sworker, sexec, sret, pvars, kvars, qvars, hvars>>

\* run_script: the blocked send goes through once the channel has room
SendUnblocked(c) ==
    /\ spc[c] = "blocked"
    /\ Len(squeue[stasks[stid[c]].model]) < QueueBound
    /\ enqueue(c, stid[c], stasks)
    /\ UNCHANGED <<snow, sworker, sexec, stid, sret, pvars, kvars, qvars,
                   hvars>>

\* The worker thread of model m is at the head of its loop
worker_free_always(m) == TRUE

worker_free(m) == sworker[m] = 0

\* start_engine, the worker loop: take the next task from the channel
WorkerTake(m) ==
    /\ worker_free(m)
    /\ squeue[m] # <<>>
    /\ sworker' = [sworker EXCEPT ![m] = Head(squeue[m])]
    /\ squeue' = [squeue EXCEPT ![m] = Tail(squeue[m])]
    /\ stasks' = [stasks EXCEPT ![Head(squeue[m])].state = "running"]
    /\ UNCHANGED <<snow, sexec, spc, stid, sret, pvars, kvars, qvars, hvars>>

\* What handle may do with an input
HandleBehaviours == {"returns", "unserialisable", "throws", "undecodable"}

\* ScriptEngine::call: Ok(output), or AppError::internal for an input that
\* does not serialise, an exception of handle, or a value that does not
\* decode
call(behaviour) ==
    IF behaviour = "returns" THEN "output" ELSE "Internal"

\* for task in receiver: the loop goes on to the next task whatever the
\* result of the call
loop_continues_if_ok(result) == result = "output"

loop_continues(result) == TRUE

\* A worker that sends the result of a task whose receiver is gone to a
\* task of the same model that still waits for its own
WorkerFinish_reply_to_waiter(m) ==
    /\ sworker[m] > 0
    /\ \E behaviour \in HandleBehaviours :
          LET result == call(behaviour)
              id == sworker[m]
              waiters == {w \in 1..Len(stasks) :
                             /\ stasks[w].model = m
                             /\ stasks[w].rx = "open"
                             /\ stasks[w].resp = "pending"
                             /\ stasks[w].state = "queued"}
              to == IF stasks[id].rx = "open" \/ waiters = {} THEN id
                    ELSE CHOOSE w \in waiters : TRUE
              finished == [stasks EXCEPT ![id] =
                              [stasks[id] EXCEPT
                                  !.result = result,
                                  !.late =
                                      \/ stasks[id].rx = "dropped"
                                      \/ snow > unwrap(stasks[id].enq) + ScriptTimeout,
                                  !.state = "done"]]
          IN  /\ stasks' = [finished EXCEPT
                               ![to] = [finished[to] EXCEPT
                                           !.resp = IF finished[to].rx = "open"
                                                    THEN result ELSE "pending"],
                               ![id] = IF to = id
                                       THEN settled([finished[id] EXCEPT
                                                !.resp = IF finished[id].rx = "open"
                                                         THEN result ELSE "pending"])
                                       ELSE settled(finished[id])]
              /\ sworker' = [sworker EXCEPT ![m] = 0]
    /\ sexec' = [sexec EXCEPT ![m] = Append(sexec[m], sworker[m])]
    /\ UNCHANGED <<snow, squeue, spc, stid, sret, pvars, kvars, qvars, hvars>>

\* start_engine, the worker loop: engine.call returns and the result is
\* sent on the task's channel; `let _ =` ignores that the receiver may
\* be gone
WorkerFinish(m) ==
    /\ sworker[m] > 0
    /\ \E behaviour \in HandleBehaviours :
          LET result == call(behaviour)
              id == sworker[m]
          IN  /\ stasks' = [stasks EXCEPT ![id] = settled(
                               [stasks[id] EXCEPT
                                   !.result = result,
                                   !.late =
                                       \/ stasks[id].rx = "dropped"
                                       \/ snow > unwrap(stasks[id].enq) + ScriptTimeout,
                                   !.state = "done",
                                   !.resp = IF stasks[id].rx = "open"
                                            THEN result ELSE "pending"])]
              /\ sworker' = [sworker EXCEPT
                                ![m] = IF loop_continues(result) THEN 0 ELSE Exited]
    /\ sexec' = [sexec EXCEPT ![m] = Append(sexec[m], sworker[m])]
    /\ UNCHANGED <<snow, squeue, spc, stid, sret, pvars, kvars, qvars, hvars>>

\* tokio::time::timeout over resp_rx: the receiver is polled first, so the
\* timeout is the outcome only while no result has been sent
timed_out_never(task) == FALSE

timed_out(task) ==
    /\ task.resp = "pending"
    /\ snow >= unwrap(task.enq) + ScriptTimeout

\* run_script returns kind to caller c: the receiver and the timer are
\* dropped with the future
Return(c, kind) ==
    LET task == stasks[stid[c]]
    IN  /\ sret' = [who |-> c, kind |-> kind, task |-> stid[c],
                    late |-> task.late,
                    waited |-> snow - unwrap(task.enq)]
        /\ stasks' = [stasks EXCEPT ![stid[c]] = settled(
                          [task EXCEPT !.rx = "dropped", !.sub = 0, !.enq = None])]
        /\ spc' = [spc EXCEPT ![c] = "idle"]
        /\ stid' = [stid EXCEPT ![c] = 0]
        /\ snow' = IF \A d \in Callers \ {c} : spc[d] = "idle" THEN 0 ELSE snow

\* run_script: the reply arrived; Ok(Ok(output)) or Ok(Err(err))
Receive(c) ==
    /\ spc[c] = "waiting"
    /\ stasks[stid[c]].resp # "pending"
    /\ Return(c, stasks[stid[c]].resp)
    /\ UNCHANGED <<squeue, sworker, sexec, pvars, kvars, qvars, hvars>>

\* run_script: Internal("script timeout")
Timeout(c) ==
    /\ spc[c] = "waiting"
    /\ timed_out(stasks[stid[c]])
    /\ Return(c, "script timeout")
    /\ UNCHANGED <<squeue, sworker, sexec, pvars, kvars, qvars, hvars>>

\* A tick of the clock, which counts from the moment the first of the
\* calls in progress was made.  The timer of tokio wakes a caller at its
\* deadline: the clock does not pass a deadline that is still to be
\* acted on.
ScriptTick ==
    /\ snow < MaxScriptTime
    /\ \E c \in Callers : spc[c] # "idle"
    /\ \A c \in Callers : spc[c] = "waiting" => ~timed_out(stasks[stid[c]])
    /\ snow' = snow + 1
    /\ UNCHANGED <<stasks, squeue, sworker, sexec, spc, stid, sret, pvars,
                   kvars, qvars, hvars>>

ScriptInit ==
    /\ PureIdle
    /\ KernelStartWith(CfgScripts)
    /\ RequestsStart
    /\ ScriptStart
    /\ HubStart

ScriptNext ==
    \/ ScriptTick
    \/ \E m \in ScriptModels :
          \/ WorkerTake(m)
          \/ WorkerFinish(m)
    \/ \E c \in Callers :
          \/ Submit(c)
          \/ SendUnblocked(c)
          \/ Receive(c)
          \/ Timeout(c)

SpecScript == ScriptInit /\ [][ScriptNext]_vars

\* ------------------------------------------------------------------------
\* SpecHub: interactive requests and the operators that reply to them, on
\* one published snapshot
\* ------------------------------------------------------------------------
interactive_models(kernel) ==
    {id \in DOMAIN kernel.models : kernel.models[id].kind = "interactive"}

\* broadcast::Sender::send: the event takes the next position of the
\* channel whoever receives; the Err it returns when no receiver is left
\* is what the callers discard with `let _ =`
send_result(subs) ==
    IF \E s \in Subscribers : subs[s].active THEN "Ok" ELSE "Err"

\* send never waits for a receiver to make room
send_ready(subs, sent) == TRUE

\* What the callers of send make of its result: nothing
send_proceeds_if_ok(result) == result = "Ok"

send_proceeds(result) == TRUE

broadcast(event) ==
    /\ send_ready(hsubs, hsent)
    /\ send_proceeds(send_result(hsubs))
    /\ hsent' = Append(hsent, event)

\* HashMap::remove on the pending map
remove_keeps_entry(pending, id) == pending

remove(pending, id) == pending \ {id}

\* state.interactive: the pending map of the one hub that main makes,
\* whatever snapshot the kernel has published since
interactive_of_snapshot(pending) == {id \in pending : hcfg[id].snap = published}

interactive(pending) == pending

\* What remove returned is Some: `if let Some(pending)`, `pending.is_some()`
is_some_always(pending, id) == TRUE

removed_is_some(pending, id) == id \in pending

\* An enqueue that lets go of the lock between the insert and the send of
\* the queued event
HubBegin_unlocked(r) ==
    /\ hpc[r] = "new"
    /\ \A e \in 1..(r - 1) : hpc[e] # "new"
    /\ wlock = None
    /\ hlock = None
    /\ \E id \in interactive_models(snaps[published]), stream \in BOOLEAN :
          LET model == snaps[published].models[id]
              cfg == unwrap(model.interactive)
          IN  hcfg' = [hcfg EXCEPT ![r] =
                          [snap |-> published, model |-> id, stream |-> stream,
                           reasoning_mode |->
                               snaps[published].config.response.reasoning_mode,
                           timeout_ms |-> cfg.timeout_ms,
                           fake_reasoning |-> cfg.fake_reasoning,
                           fallback_text |-> cfg.fallback_text,
                           chunk_size |-> stream_chunk_size(model.kind,
                                                            cfg.stream_chunk_chars)]]
    /\ hchan' = [hchan EXCEPT ![r] = [made |-> TRUE, value |-> None, rx |-> "open",
                                      sends |-> 0]]
    /\ hlock' = None
    /\ hpending' = hpending \cup {r}
    /\ hpc' = [hpc EXCEPT ![r] = "locked"]
    /\ UNCHANGED <<hsent, hsubs, hwait, hout, opc, oret, nrep, pvars, kvars,
                   qvars, svars>>

\* chat_completions up to and into InteractiveHub::enqueue: the snapshot
\* and the interactive model the request resolved to, the oneshot channel,
\* the lock, the insert
HubBegin(r) ==
    /\ hpc[r] = "new"
    /\ \A e \in 1..(r - 1) : hpc[e] # "new"
    /\ wlock = None
    /\ hlock = None
    /\ \E id \in interactive_models(snaps[published]), stream \in BOOLEAN :
          LET model == snaps[published].models[id]
              cfg == unwrap(model.interactive)
          IN  hcfg' = [hcfg EXCEPT ![r] =
                          [snap |-> published, model |-> id, stream |-> stream,
                           reasoning_mode |->
                               snaps[published].config.response.reasoning_mode,
                           timeout_ms |-> cfg.timeout_ms,
                           fake_reasoning |-> cfg.fake_reasoning,
                           fallback_text |-> cfg.fallback_text,
                           chunk_size |-> stream_chunk_size(model.kind,
                                                            cfg.stream_chunk_chars)]]
    /\ hchan' = [hchan EXCEPT ![r] = [made |-> TRUE, value |-> None, rx |-> "open",
                                      sends |-> 0]]
    /\ hlock' = Some(r)
    /\ hpending' = hpending \cup {r}
    /\ hpc' = [hpc EXCEPT ![r] = "locked"]
    /\ UNCHANGED <<hsent, hsubs, hwait, hout, opc, oret, nrep, pvars, kvars,
                   qvars, svars>>

\* InteractiveHub::enqueue from its send to its return, where the guard
\* `pending` goes out of scope; then the handler goes on to its wait, or
\* returns the stream to be polled
HubEnqueueSend(r) ==
    /\ hpc[r] = "locked"
    /\ broadcast(InteractiveEvent("queued", r))
    /\ hlock' = None
    /\ hpc' = [hpc EXCEPT ![r] = IF hcfg[r].stream THEN "prelude" ELSE "waiting"]
    /\ hwait' = [hwait EXCEPT ![r] = 0]
    /\ UNCHANGED <<hpending, hsubs, hchan, hcfg, hout, opc, oret, nrep,
                   pvars, kvars, qvars, svars>>

\* build_interactive_sse_stream up to its wait: the role delta and the
\* deltas of fake_reasoning, then the timer starts
HubPrelude(r) ==
    /\ hpc[r] = "prelude"
    /\ hout' = [hout EXCEPT ![r].events =
                   interactive_prelude(hcfg[r].fake_reasoning, hcfg[r].reasoning_mode,
                                       hcfg[r].chunk_size)]
    /\ hpc' = [hpc EXCEPT ![r] = "waiting"]
    /\ hwait' = [hwait EXCEPT ![r] = 0]
    /\ UNCHANGED <<hpending, hlock, hsent, hsubs, hchan, hcfg, opc, oret,
                   nrep, pvars, kvars, qvars, svars>>

\* What the client has once the handler is through with `reply`
completed(r, reply, elapsed) ==
    IF hcfg[r].stream
    THEN [events |-> hout[r].events
                     \o interactive_rest(reply, hcfg[r].reasoning_mode,
                                         hcfg[r].chunk_size),
          body |-> None, complete |-> TRUE, timed_out |-> elapsed]
    ELSE [events |-> <<>>,
          body |-> Some(interactive_body(reply, hcfg[r].reasoning_mode)),
          complete |-> TRUE, timed_out |-> elapsed]

\* timeout(.., reply_rx) is Ok(Ok(reply)): the reply is in the channel when
\* the handler is polled
HubReceive(r) ==
    /\ hpc[r] = "waiting"
    /\ is_some(hchan[r].value)
    /\ hout' = [hout EXCEPT ![r] = completed(r, unwrap(hchan[r].value), FALSE)]
    /\ hchan' = [hchan EXCEPT ![r].rx = "dropped"]
    /\ hpc' = [hpc EXCEPT ![r] = "done"]
    /\ hwait' = [hwait EXCEPT ![r] = 0]
    /\ UNCHANGED <<hpending, hlock, hsent, hsubs, hcfg, opc, oret, nrep,
                   pvars, kvars, qvars, svars>>

\* timeout(.., reply_rx) is Err(Elapsed): the channel is empty when the
\* timer has run out; the Timeout future and the receiver in it are dropped
HubElapsed(r) ==
    /\ hpc[r] = "waiting"
    /\ ~is_some(hchan[r].value)
    /\ hwait[r] = hcfg[r].timeout_ms
    /\ hchan' = [hchan EXCEPT ![r].rx = "dropped"]
    /\ hpc' = [hpc EXCEPT ![r] = "expired"]
    /\ hwait' = [hwait EXCEPT ![r] = 0]
    /\ UNCHANGED <<hpending, hlock, hsent, hsubs, hcfg, hout, opc, oret,
                   nrep, pvars, kvars, qvars, svars>>

\* InteractiveHub::timeout, its first statement: lock, remove, unlock.  With
\* no entry found it returns false and the handler completes with the
\* fallback.
HubTimeoutRemove(r) ==
    /\ hpc[r] = "expired"
    /\ hlock = None
    /\ hpending' = remove(hpending, r)
    /\ IF removed_is_some(interactive(hpending), r)
       THEN /\ hpc' = [hpc EXCEPT ![r] = "removed"]
            /\ UNCHANGED hout
       ELSE /\ hpc' = [hpc EXCEPT ![r] = "done"]
            /\ hout' = [hout EXCEPT ![r] =
                           completed(r, fallback_reply(hcfg[r].fallback_text), TRUE)]
    /\ UNCHANGED <<hlock, hsent, hsubs, hchan, hcfg, hwait, opc, oret, nrep,
                   pvars, kvars, qvars, svars>>

\* InteractiveHub::timeout with the entry found: the timeout event, return
\* true; the handler completes with the fallback
HubTimeoutSend(r) ==
    /\ hpc[r] = "removed"
    /\ broadcast(InteractiveEvent("timeout", r))
    /\ hpc' = [hpc EXCEPT ![r] = "done"]
    /\ hout' = [hout EXCEPT ![r] =
                   completed(r, fallback_reply(hcfg[r].fallback_text), TRUE)]
    /\ UNCHANGED <<hpending, hlock, hsubs, hchan, hcfg, hwait, opc, oret,
                   nrep, pvars, kvars, qvars, svars>>

\* A tick of the clock: the timers of the waiting handlers advance; a
\* handler whose timer has run out is polled before the next tick
HubTick ==
    /\ \E r \in RequestIds : hpc[r] = "waiting"
    /\ \A r \in RequestIds : hpc[r] = "waiting" => hwait[r] < hcfg[r].timeout_ms
    /\ hwait' = [r \in RequestIds |->
                    IF hpc[r] = "waiting" THEN hwait[r] + 1 ELSE hwait[r]]
    /\ UNCHANGED <<hpending, hlock, hsent, hsubs, hchan, hpc, hcfg, hout,
                   opc, oret, nrep, pvars, kvars, qvars, svars>>

\* InteractiveHub::reply, its first statement: lock, remove, unlock.  With
\* no entry found it returns false.
ReplyCall(o, id, payload) ==
    /\ opc[o].pc = "idle"
    /\ nrep < MaxReplies
    /\ hlock = None
    /\ nrep' = nrep + 1
    /\ hpending' = remove(hpending, id)
    /\ IF removed_is_some(interactive(hpending), id)
       THEN /\ opc' = [opc EXCEPT ![o] = [pc |-> "deliver", id |-> id,
                                          payload |-> payload]]
            /\ UNCHANGED oret
       ELSE /\ oret' = [who |-> o, id |-> id, found |-> FALSE]
            /\ UNCHANGED opc
    /\ UNCHANGED <<hlock, hsent, hsubs, hchan, hpc, hcfg, hwait, hout, pvars,
                   kvars, qvars, svars>>

\* pending.reply_tx.send(reply): the payload is in the channel unless the
\* receiver has been dropped
ReplyDeliver(o) ==
    /\ opc[o].pc = "deliver"
    /\ hchan' = [hchan EXCEPT ![opc[o].id] =
                    [@ EXCEPT !.sends = @ + 1,
                              !.value = IF hchan[opc[o].id].rx = "open"
                                        THEN Some(opc[o].payload) ELSE None]]
    /\ opc' = [opc EXCEPT ![o].pc = "publish"]
    /\ UNCHANGED <<hpending, hlock, hsent, hsubs, hpc, hcfg, hwait, hout,
                   oret, nrep, pvars, kvars, qvars, svars>>

\* The replied event, return true
ReplyPublish(o) ==
    /\ opc[o].pc = "publish"
    /\ broadcast(InteractiveEvent("replied", opc[o].id))
    /\ oret' = [who |-> o, id |-> opc[o].id, found |-> TRUE]
    /\ opc' = [opc EXCEPT ![o] = OperatorIdle]
    /\ UNCHANGED <<hpending, hlock, hsubs, hchan, hpc, hcfg, hwait, hout,
                   nrep, pvars, kvars, qvars, svars>>

\* InteractiveHub::subscribe: a receiver that starts at the next event sent
Subscribe(s) ==
    /\ ~hsubs[s].active
    /\ hsubs' = [hsubs EXCEPT ![s] = [active |-> TRUE, next |-> Len(hsent) + 1,
                                      lost |-> 0]]
    /\ UNCHANGED <<hpending, hlock, hsent, hchan, hpc, hcfg, hwait, hout,
                   opc, oret, nrep, pvars, kvars, qvars, svars>>

\* broadcast::Receiver::recv with an event to read: the event at `next`, or
\* Lagged when that event has been overwritten, and then the receiver
\* moves to the oldest event the channel still has
SubRecv(s) ==
    /\ hsubs[s].active
    /\ hsubs[s].next <= Len(hsent)
    /\ LET oldest == Len(hsent) - EventCap + 1
       IN  IF hsubs[s].next < oldest
           THEN hsubs' = [hsubs EXCEPT ![s].lost = @ + (oldest - hsubs[s].next),
                                       ![s].next = oldest]
           ELSE hsubs' = [hsubs EXCEPT ![s].next = @ + 1]
    /\ UNCHANGED <<hpending, hlock, hsent, hchan, hpc, hcfg, hwait, hout,
                   opc, oret, nrep, pvars, kvars, qvars, svars>>

HubInit ==
    /\ PureIdle
    /\ KernelStartWith(CfgHub)
    /\ RequestsStart
    /\ ScriptStart
    /\ HubStart

\* The steps of the handlers of the interactive requests
HandlerNext ==
    \/ HubTick
    \/ \E r \in RequestIds :
          \/ HubBegin(r)
          \/ HubEnqueueSend(r)
          \/ HubPrelude(r)
          \/ HubReceive(r)
          \/ HubElapsed(r)
          \/ HubTimeoutRemove(r)
          \/ HubTimeoutSend(r)

\* The steps of an operator
OperatorNext(o) ==
    \/ \E id \in RequestIds : ReplyCall(o, id, HubPayload(o))
    \/ ReplyDeliver(o)
    \/ ReplyPublish(o)

HubNext ==
    \/ HandlerNext
    \/ \E o \in Operators : OperatorNext(o)

SpecHub == HubInit /\ [][HubNext]_vars

\* SpecHubEvents: the handlers, one operator and a subscriber of the event
\* stream
HubEventsNext ==
    \/ HandlerNext
    \/ OperatorNext("o1")
    \/ \E s \in Subscribers :
          \/ Subscribe(s)
          \/ SubRecv(s)

SpecHubEvents == HubInit /\ [][HubEventsNext]_vars

\* ------------------------------------------------------------------------
\* SpecHubReload: an interactive request, an operator and a subscriber
\* while the kernel reloads
\* ------------------------------------------------------------------------
HubReloadNext ==
    \/ Tick
    \/ \E r \in {"r1"} :
          \/ ReloadCall(r)
          \/ ReloadDebounced(r)
          \/ Load(r)
          \/ Swap(r)
          \/ Record(r)
    \/ HubTick
    \/ \E r \in {1} :
          \/ HubBegin(r)
          \/ HubEnqueueSend(r)
          \/ HubPrelude(r)
          \/ HubReceive(r)
          \/ HubElapsed(r)
          \/ HubTimeoutRemove(r)
          \/ HubTimeoutSend(r)
    \/ \E o \in {"o1"} :
          \/ ReplyCall(o, 1, HubPayload(o))
          \/ ReplyDeliver(o)
          \/ ReplyPublish(o)
    \/ \E s \in Subscribers : Subscribe(s)

SpecHubReload == HubInit /\ [][HubReloadNext]_vars

\* ------------------------------------------------------------------------
\* SpecWhen: compiled_matches applied to bounded when-clauses and texts
\* ------------------------------------------------------------------------
\* Conditions used to fill lists of more than one condition.
CondPool ==
    { [kind |-> "contains", needle |-> <<"a">>, case |-> Insensitive],
      [kind |-> "starts_with", needle |-> <<"b">>, case |-> Sensitive] }

CondLists == SeqsUpTo(CondPool, MaxConds)

\* Every combination of lists over the pool, and every single condition of
\* the whole condition range in each of the three positions.
WhenInputs ==
    [any : CondLists, all : CondLists, none : CondLists]
    \cup { [any |-> <<c>>, all |-> <<>>, none |-> <<>>] :
               c \in StringConditions \cup RegexConditions }
    \cup { [any |-> <<>>, all |-> <<c>>, none |-> <<>>] : c \in StringConditions }
    \cup { [any |-> <<>>, all |-> <<>>, none |-> <<c>>] : c \in StringConditions }

WhenInit ==
    /\ fin \in [op : {"compiled_matches"}, when : WhenInputs, text : Texts]
    /\ fout = NoOut
    /\ KernelStart
    /\ RequestsStart
    /\ ScriptStart
    /\ HubStart

ApplyCompiledMatches ==
    /\ fin.op = "compiled_matches"
    /\ fout = NoOut
    /\ KernelStart
    /\ RequestsStart
    /\ fout' = [stage |-> "done", matched |-> compiled_matches(fin.when, fin.text)]
    /\ UNCHANGED <<fin, kvars, qvars, svars, hvars>>

\* ------------------------------------------------------------------------
\* SpecRule: a static model is validated and compiled, then a rule is
\* selected for an input text
\* ------------------------------------------------------------------------
\* Rules as they may stand in a model file: conditioned rules whose clauses
\* overlap on some texts, a default rule, a regex rule, a rule whose regex
\* literal does not compile, and rules that validation rejects.
RulePool ==
    { Rule(FALSE, When(<<Cond("contains", <<"a">>, None)>>, <<>>, <<>>), <<"r1">>),
      Rule(FALSE, When(<<>>, <<Cond("contains", <<"b">>, Some(Sensitive))>>, <<>>),
           <<"r2", "r3">>),
      Rule(FALSE, When(<<Cond("starts_with", <<"A">>, Some(Insensitive))>>, <<>>,
                       <<Cond("equals", <<"a">>, None)>>), <<"r4">>),
      Rule(FALSE, When(<<[kind |-> "regex",
                          regex |-> [pattern |-> <<"b">>, flags |-> <<"i">>]]>>,
                       <<>>, <<>>), <<"r5">>),
      Rule(FALSE, When(<<[kind |-> "regex",
                          regex |-> [pattern |-> <<"b">>, flags |-> <<"x">>]]>>,
                       <<>>, <<>>), <<"r6">>),
      Rule(TRUE, NoWhen, <<"d1", "d2">>),
      Rule(TRUE, When(<<Cond("contains", <<"a">>, None)>>, <<>>, <<>>), <<"r7">>),
      Rule(FALSE, NoWhen, <<"r8">>),
      Rule(FALSE, When(<<>>, <<>>, <<>>), <<"r9">>),
      Rule(TRUE, NoWhen, <<>>) }

StaticConfigs == [pick : {None}, rules : SeqsUpTo(RulePool, MaxRules)]

RuleInit ==
    /\ fin \in [op : {"select_rule"}, cfg : StaticConfigs,
                user_text : {None} \cup {Some(t) : t \in Texts}]
    /\ fout = NoOut
    /\ KernelStart
    /\ RequestsStart
    /\ ScriptStart
    /\ HubStart

\* resolve_model_file validates the rules; KernelState::load then builds the
\* match cache.  Either step failing rejects the model.
LoadStatic ==
    /\ fin.op = "select_rule"
    /\ fout.stage = "init"
    /\ fout' = IF ~validate_static_rules(fin.cfg)
               THEN [stage |-> "rejected", by |-> "validate_static_rules"]
               ELSE LET cache == build_match_cache(fin.cfg)
                    IN  IF cache.ok
                        THEN [stage |-> "loaded", cache |-> cache]
                        ELSE [stage |-> "rejected", by |-> "build_match_cache"]
    /\ UNCHANGED <<fin, kvars, qvars, svars, hvars>>

\* select_static_reply: the rule index for the request's input text
SelectRule ==
    /\ fin.op = "select_rule"
    /\ fout.stage = "loaded"
    /\ fout' = [stage |-> "selected", cache |-> fout.cache,
                rule_idx |-> select_rule_index(fin.cfg, Some(fout.cache),
                                               fin.user_text)]
    /\ UNCHANGED <<fin, kvars, qvars, svars, hvars>>

\* ------------------------------------------------------------------------
\* SpecResolve: resolve_public_model applied to bounded catalogs
\* ------------------------------------------------------------------------
ModelIds == {<<"m">>, <<"f">>}
AliasNames == {<<"f">>, <<"g">>}
Owners == {<<"l">>, <<"k">>}

\* The model table of a snapshot: at least one model (load_app_config
\* rejects an empty model directory).
ModelTables ==
    UNION {[ids -> [owned_by : Owners, disabled : BOOLEAN]] :
              ids \in (SUBSET ModelIds) \ {{}}}

AliasPool ==
    [name : AliasNames,
     owned_by : {None, Some(<<" ">>), Some(<<"l">>), Some(<<"k", " ">>)},
     disabled : BOOLEAN,
     providers : SeqsUpTo(ModelIds, MaxProviders),
     strategy : {"round_robin", "random"}]

\* Catalogs with no alias or one alias, as validate_aliases accepts them
Kernels ==
    {[models |-> m, aliases |-> alias_map(al)] :
        <<m, al>> \in {x \in ModelTables \X ({<<>>} \cup {<<a>> : a \in AliasPool}) :
                          validate_aliases(x[2], DOMAIN x[1])}}

\* The counters a snapshot can hold for its aliases: none yet, or a value
\* below the number of enabled providers.
AliasCounters(kernel) ==
    {<<>>} \cup
    UNION {{put(<<>>, n, c) :
               c \in 0..(Len(enabled_providers(kernel.aliases[n], kernel.models)) - 1)} :
           n \in DOMAIN kernel.aliases}

PublicIds ==
    {build_public_id(p, n) : p \in Owners \cup {LlmLab}, n \in ModelIds \cup AliasNames}
    \cup {<<"m">>, <<"/", "m">>, <<"l", "/">>, <<"l", "/", " ">>}

ResolveInit ==
    /\ fin \in {[op |-> "resolve", kernel |-> k, public_id |-> id, alias_rr |-> rr] :
                   <<k, id, rr>> \in {x \in Kernels \X PublicIds \X
                                         UNION {AliasCounters(k) : k \in Kernels} :
                                         x[3] \in AliasCounters(x[1])}}
    /\ fout = NoOut
    /\ KernelStart
    /\ RequestsStart
    /\ ScriptStart
    /\ HubStart

ApplyResolve ==
    /\ fin.op = "resolve"
    /\ fout.stage = "init"
    /\ \E o \in resolve_public_model(fin.kernel, fin.public_id, fin.alias_rr) :
           fout' = [stage |-> "done", res |-> o.res, rr |-> o.rr]
    /\ UNCHANGED <<fin, kvars, qvars, svars, hvars>>

SpecResolve == ResolveInit /\ [][ApplyResolve]_vars

\* ------------------------------------------------------------------------
\* SpecStream: the SSE stream of one chat completion
\* ------------------------------------------------------------------------
MaxChunk == 2

ChunkChars == {None} \cup {Some(n) : n \in 0..MaxChunk}
ReasoningTexts == {None, Some(<<"r">>), Some(<<"r", "s">>)}

\* A static or script model: the Reply of generate_reply, the mode, the
\* stream_chunk_chars of the model.  An interactive model: the reply the
\* operator posted, or none in time; the fake_reasoning and fallback_text
\* of the model.
StreamInputs ==
    [op : {"stream"}, kind : {"static", "script"}, content : Texts,
     reasoning : ReasoningTexts, finish_reason : {Some("stop"), Some("length")},
     mode : ReasoningModes, stream_chunk_chars : ChunkChars,
     fake_reasoning : {None}, timed_out : {FALSE}, fallback_text : {<<"o">>}]
    \cup
    [op : {"stream"}, kind : {"interactive"}, content : Texts,
     reasoning : ReasoningTexts, finish_reason : {None, Some("length")},
     mode : ReasoningModes, stream_chunk_chars : ChunkChars,
     fake_reasoning : {None, Some(<<"f", "g">>)}, timed_out : BOOLEAN,
     fallback_text : {<<"o">>}]

StreamInit ==
    /\ fin \in StreamInputs
    /\ fout = NoOut
    /\ KernelStart
    /\ RequestsStart
    /\ ScriptStart
    /\ HubStart

\* chat_completions with stream = true, from the reply on
sse_events(in) ==
    LET chunk_size == stream_chunk_size(in.kind, in.stream_chunk_chars)
    IN  IF in.kind = "interactive"
        THEN LET reply == IF in.timed_out THEN fallback_reply(in.fallback_text)
                          ELSE InteractiveReply(in.content, in.reasoning,
                                                in.finish_reason)
             IN  interactive_prelude(in.fake_reasoning, in.mode, chunk_size)
                 \o interactive_rest(reply, in.mode, chunk_size)
        ELSE LET out == apply_reasoning(in.content, in.reasoning, in.mode)
             IN  build_sse_stream(out.content, out.reasoning,
                                  unwrap(in.finish_reason), in.mode, chunk_size)

ApplyStream ==
    /\ fin.op = "stream"
    /\ fout = NoOut
    /\ fout' = [stage |-> "done", events |-> sse_events(fin)]
    /\ UNCHANGED <<fin, kvars, qvars, svars, hvars>>

SpecStream == StreamInit /\ [][ApplyStream]_vars

SpecRule == RuleInit /\ [][LoadStatic \/ SelectRule]_vars

SpecWhen == WhenInit /\ [][ApplyCompiledMatches]_vars

\* ------------------------------------------------------------------------
\* C9
\* ------------------------------------------------------------------------
\* What the claim says one condition means: a case-insensitive condition
\* compares the lowercased input with the lowercased needle, a
\* case-sensitive one compares the two verbatim.
ClaimedCondition(c, t) ==
    LET hay == IF c.case = Insensitive THEN to_lowercase(t) ELSE t
        ndl == IF c.case = Insensitive THEN to_lowercase(c.needle) ELSE c.needle
    IN  CASE c.kind = "contains" -> contains(hay, ndl)
          [] c.kind = "equals" -> hay = ndl
          [] c.kind = "starts_with" -> starts_with(hay, ndl)
          [] c.kind = "ends_with" -> ends_with(hay, ndl)
          [] c.kind = "regex" -> is_match(c, t)

ClaimedWhen(w, t) ==
    /\ (w.any = <<>> \/ \E i \in 1..Len(w.any) : ClaimedCondition(w.any[i], t))
    /\ \A i \in 1..Len(w.all) : ClaimedCondition(w.all[i], t)
    /\ \A i \in 1..Len(w.none) : ~ClaimedCondition(w.none[i], t)

\* C9: compiled_matches(when, t) is true exactly when (any is empty or some
\* condition of any matches t), every condition of all matches t and no
\* condition of none matches t, a case-insensitive condition comparing
\* lowercased input with lowercased needle and a case-sensitive one
\* comparing verbatim.
C9_CompiledMatches ==
    (fin.op = "compiled_matches" /\ fout.stage = "done")
        => (fout.matched <=> ClaimedWhen(fin.when, fin.text))

\* A clause with two any-conditions of which exactly one matches, and a
\* case-insensitive condition that matches only after lowercasing.
C9_Witness ==
    /\ fin.op = "compiled_matches" /\ fout.stage = "done" /\ fout.matched
    /\ Len(fin.when.any) = 2
    /\ ~ClaimedCondition(fin.when.any[1], fin.text)
    /\ fin.when.any[2].case = Insensitive
    /\ ~contains(fin.text, fin.when.any[2].needle)

\* ------------------------------------------------------------------------
\* C7
\* ------------------------------------------------------------------------
\* Rule i (from 0) of the loaded model is conditioned and its when matches t
RuleMatches(i, t) ==
    /\ fin.cfg.rules[i + 1].when # NoWhen
    /\ compiled_matches(fout.cache.compiled[i + 1], t)

\* C7: the selected rule is the conditioned rule of lowest index whose when
\* matches the input text; if none matches, or there is no input text, it
\* is the rule marked default=true.
C7_FirstMatchWins ==
    (fin.op = "select_rule" /\ fout.stage = "selected") =>
        LET n == Len(fin.cfg.rules)
            hit(i) == is_some(fin.user_text) /\ RuleMatches(i, unwrap(fin.user_text))
        IN  /\ is_some(fout.rule_idx)
            /\ LET s == unwrap(fout.rule_idx)
               IN  /\ s \in 0..(n - 1)
                   /\ IF \E i \in 0..(n - 1) : hit(i)
                      THEN hit(s) /\ \A j \in 0..(s - 1) : ~hit(j)
                      ELSE fin.cfg.rules[s + 1].default

\* Two conditioned rules match the text and a default rule stands before
\* them; the earlier of the two is selected.
C7_Witness ==
    /\ fin.op = "select_rule" /\ fout.stage = "selected"
    /\ is_some(fin.user_text)
    /\ fin.cfg.rules[1].default
    /\ Len(fin.cfg.rules) = 3
    /\ RuleMatches(1, unwrap(fin.user_text))
    /\ RuleMatches(2, unwrap(fin.user_text))
    /\ fin.cfg.rules[2] # fin.cfg.rules[3]
    /\ fout.rule_idx = Some(1)

\* ------------------------------------------------------------------------
\* C6
\* ------------------------------------------------------------------------
ResolveDone == fin.op = "resolve" /\ fout.stage = "done"

ReqPrefix == unwrap(split_public_id(fin.public_id)).prefix
ReqName == unwrap(split_public_id(fin.public_id)).name

IsNotFound(res) == ~res.ok /\ res.kind = "NotFound"

\* An enabled model called ReqName owned by ReqPrefix exists
ModelRoutable ==
    /\ ReqName \in DOMAIN fin.kernel.models
    /\ ~fin.kernel.models[ReqName].disabled
    /\ fin.kernel.models[ReqName].owned_by = ReqPrefix

\* An enabled alias called ReqName exists and prefix(alias) is ReqPrefix
AliasRoutable(prefix(_, _)) ==
    /\ ReqName \in DOMAIN fin.kernel.aliases
    /\ ~fin.kernel.aliases[ReqName].disabled
    /\ prefix(fin.kernel.aliases[ReqName], fin.kernel.models) = ReqPrefix

ReturnsEnabledProvider ==
    /\ fout.res.ok
    /\ \E i \in 1..Len(fin.kernel.aliases[ReqName].providers) :
           /\ fin.kernel.aliases[ReqName].providers[i] = fout.res.v
           /\ ~fin.kernel.models[fout.res.v].disabled

AmendedPrefix(alias, models) ==
    LET set == is_some(alias.owned_by) /\ trim(unwrap(alias.owned_by)) # <<>>
        en == {i \in 1..Len(alias.providers) :
                  alias.providers[i] \in DOMAIN models
                      /\ ~models[alias.providers[i]].disabled}
        kn == {i \in 1..Len(alias.providers) : alias.providers[i] \in DOMAIN models}
    IN  CASE set -> trim(unwrap(alias.owned_by))
          [] ~set /\ en # {} -> models[alias.providers[Min(en)]].owned_by
          [] ~set /\ en = {} /\ kn # {} -> models[alias.providers[Min(kn)]].owned_by
          [] OTHER -> LlmLab

WithinWindow(ret) ==
    /\ ret.who # "none"
    /\ is_some(ret.call.after)
    /\ ret.call.at - unwrap(ret.call.after).at < RELOAD_DEBOUNCE

C1_SecondReloadDebounced ==
    WithinWindow(rret) =>
        /\ rret.kind = "ok"
        /\ ~rret.reloaded
        /\ ~rret.built
        /\ rret.prev = rret.call.after =>
              rret.state = unwrap(rret.call.after).state
        /\ last_true = rret.call.after /\ wlock = None =>
              published = unwrap(rret.call.after).state

\* The second call came one tick after the first had returned, and got the
\* snapshot of the first, which is still the published one.
C1_Witness ==
    /\ WithinWindow(rret)
    /\ rret.call.at > unwrap(rret.call.after).at
    /\ ~rret.reloaded
    /\ rret.state = unwrap(rret.call.after).state
    /\ published = rret.state
    /\ published > 1

\* ------------------------------------------------------------------------
\* C2 (as stated): of the reload() calls that run concurrently only one
\* returns reloaded=true: no other call returns reloaded=true between the
\* entry of a call and its own return of reloaded=true.
\* ------------------------------------------------------------------------
C2_OnlyFirstWins ==
    rret.reloaded => rret.prev = rret.call.after

\* ------------------------------------------------------------------------
\* C3: when KernelState::load fails, reload() returns Internal and nothing
\* is published: the pointer, the snapshots and the write lock are as
\* before, however many models had been processed; and what does reach
\* the swap was built completely.
\* ------------------------------------------------------------------------
BuiltCompletely(k) ==
    \A id \in DOMAIN k.models :
       LET model == k.models[id]
       IN  /\ model.kind = "script" =>
                 id \in k.engines /\ unwrap(model.script).init_ok
           /\ model.kind = "static" =>
                 /\ id \in DOMAIN k.match_cache
                 /\ k.match_cache[id].ok
                 /\ validate_static_rules(unwrap(model.static))

FailedBuild(r) ==
    /\ rpc[r] = "load"
    /\ rpc'[r] = "idle"

C3_FailedBuildKeepsSnapshot ==
    [][\A r \in Reloaders :
          /\ FailedBuild(r) =>
                /\ rret'.who = r
                /\ rret'.kind = "Internal"
                /\ published' = published
                /\ snaps' = snaps
                /\ wlock' = wlock
          /\ rpc[r] = "load" /\ rpc'[r] = "swap" =>
                BuiltCompletely(snaps'[Len(snaps')])
          /\ rpc'[r] = "record" /\ rpc[r] # "record" =>
                BuiltCompletely(snaps'[published'])]_vars

\* A build failed after a model had been processed, while a snapshot of an
\* earlier reload is the published one.
C3_Witness ==
    /\ rret.kind = "Internal"
    /\ rret.done >= 1
    /\ published > 1
    /\ BuiltCompletely(snaps[published])

\* ------------------------------------------------------------------------
\* C4: a request uses the snapshot it got from current() and no other,
\* with the tables it had then, whatever is published meanwhile; and every
\* snapshot that current() can return is the complete build of one config.
\* ------------------------------------------------------------------------
CompleteBuilds == {tables(load(c).state) : c \in {d \in DiskConfigs : load(d).ok}}

C4_RequestKeepsSnapshot ==
    /\ \A q \in Requests :
          qpc[q] # "idle" =>
             /\ qused[q] \subseteq {qsnap[q]}
             /\ qview[q] = tables(snaps[qsnap[q]])
    /\ qret.who # "none" => qret.used \subseteq {qret.snap}
    /\ tables(snaps[published]) \in CompleteBuilds

\* A request completed on its snapshot after a reload had published
\* another one.
C4_Witness ==
    /\ qret.kind = "reply"
    /\ qret.used = {qret.snap}
    /\ qret.snap # published
    /\ tables(snaps[qret.snap]) # tables(snaps[published])

\* ------------------------------------------------------------------------
\* C5 (as stated): over any N consecutive requests to a round-robin alias
\* with k enabled providers, each enabled provider is selected floor(N/k)
\* or ceil(N/k) times; k read as the number of enabled entries of the
\* alias or as the number of enabled provider ids.
\* ------------------------------------------------------------------------
Range(seq) == {seq[i] : i \in 1..Len(seq)}

Count(seq, from, to, x) == Cardinality({i \in from..to : seq[i] = x})

Multiplicity(seq, x) == Count(seq, 1, Len(seq), x)

Floor(n, k) == n \div k

Ceil(n, k) == (n + k - 1) \div k

RoundRobinAliases(k) ==
    {a \in DOMAIN k.alias_log : k.aliases[a].strategy = "round_robin"}

EvenlySpread(log, enabled, k) ==
    \A from \in 1..Len(log) : \A to \in from..Len(log) :
       \A x \in Range(enabled) :
          LET n == to - from + 1
          IN  Count(log, from, to, x) \in {Floor(n, k), Ceil(n, k)}

C5_AsStated ==
    \A s \in 1..Len(snaps) : \A a \in RoundRobinAliases(snaps[s]) :
       LET enabled == enabled_providers(snaps[s].aliases[a], snaps[s].models)
           log == snaps[s].alias_log[a]
       IN  \/ EvenlySpread(log, enabled, Len(enabled))
           \/ EvenlySpread(log, enabled, Cardinality(Range(enabled)))

\* C5 (amended): the i-th request to the alias (from 0, within the
\* snapshot) gets entry i mod k of the alias's enabled providers, in the
\* order the alias lists them, k the number of enabled entries; so over
\* any N consecutive requests a provider that the alias lists m times is
\* selected between m * floor(N/k) and m * ceil(N/k) times, and the
\* counter is the number of requests so far modulo k.
C5_RoundRobinByEntry ==
    \A s \in 1..Len(snaps) : \A a \in RoundRobinAliases(snaps[s]) :
       LET enabled == enabled_providers(snaps[s].aliases[a], snaps[s].models)
           log == snaps[s].alias_log[a]
           k == Len(enabled)
       IN  /\ \A i \in 1..Len(log) : log[i] = enabled[((i - 1) % k) + 1]
           /\ counter(snaps[s].alias_rr, a) = Len(log) % k
           /\ \A from \in 1..Len(log) : \A to \in from..Len(log) :
                 \A x \in Range(enabled) :
                    LET n == to - from + 1
                        m == Multiplicity(enabled, x)
                    IN  /\ Count(log, from, to, x) >= m * Floor(n, k)
                        /\ Count(log, from, to, x) <= m * Ceil(n, k)

\* The alias that lists a provider twice has served four requests: the
\* counter has wrapped around.
C5_Witness ==
    \E s \in 1..Len(snaps) : \E a \in RoundRobinAliases(snaps[s]) :
       LET enabled == enabled_providers(snaps[s].aliases[a], snaps[s].models)
       IN  /\ Cardinality(Range(enabled)) < Len(enabled)
           /\ Len(snaps[s].alias_log[a]) > Len(enabled)

\* ------------------------------------------------------------------------
\* C8: with pick=round_robin the j-th request (from 0, within the
\* snapshot) that selects rule r of model m gets replies[j mod n] of that
\* rule, and the counter of (m, r) counts those requests only.
\* ------------------------------------------------------------------------
C8_RepliesCycle ==
    \A s \in 1..Len(snaps) : \A key \in DOMAIN snaps[s].rule_log :
       LET rule == unwrap(snaps[s].models[key[1]].static).rules[key[2] + 1]
           log == snaps[s].rule_log[key]
           n == Len(rule.replies)
       IN  /\ \A j \in 0..(Len(log) - 1) : log[j + 1] = rule.replies[(j % n) + 1]
           /\ counter(snaps[s].rr_state, key) = Len(log) % n

\* One rule has gone round its replies (a, b, a) while another rule was
\* selected as well.
C8_Witness ==
    \E s \in 1..Len(snaps) : \E key, other \in DOMAIN snaps[s].rule_log :
       /\ key # other
       /\ Len(snaps[s].rule_log[key]) >= 3
       /\ Len(unwrap(snaps[s].models[key[1]].static).rules[key[2] + 1].replies) = 2

\* ------------------------------------------------------------------------
\* C10: a script call whose reply has not been produced script.timeout_ms
\* after it was enqueued returns Internal("script timeout") then, and a
\* call whose reply was produced by then returns that reply; the timeout
\* takes nothing from the worker, which runs the task to its end, the late
\* result reaches no one, and later calls are served.
\* ------------------------------------------------------------------------
Deadline(task) == unwrap(task.enq) + ScriptTimeout

\* The tasks whose caller has returned before the worker finished them
Abandoned == {id \in 1..Len(stasks) : stasks[id].rx = "dropped"
                                       /\ stasks[id].state # "done"}

C10_ScriptTimeout ==
    /\ \A c \in Callers :
          spc[c] = "waiting" =>
             LET task == stasks[stid[c]]
             IN  /\ task.caller = c
                 /\ task.resp = "pending" =>
                       /\ snow <= Deadline(task)
                       /\ task.state # "done"
                 /\ task.resp # "pending" =>
                       /\ task.resp = task.result
                       /\ task.state = "done"
                       /\ ~task.late
    /\ sret.kind = "script timeout" => sret.waited = ScriptTimeout
    /\ sret.kind \in {"output", "Internal"} => ~sret.late
    /\ \A id \in Abandoned :
          LET m == stasks[id].model
          IN  /\ stasks[id].resp = "pending"
              /\ \/ \E i \in 1..Len(squeue[m]) : squeue[m][i] = id
                 \/ sworker[m] = id
    /\ \A id \in 1..Len(stasks) :
          stasks[id].late => stasks[id].rx = "dropped" /\ stasks[id].resp = "pending"

\* A call got its output after an earlier call to the same model had timed
\* out and the worker had run that call to its end, the late result
\* discarded.
C10_Witness ==
    /\ sret.kind = "output"
    /\ \E id \in 1..(sret.task - 1) :
          /\ stasks[id].model = stasks[sret.task].model
          /\ stasks[id].state = "done"
          /\ stasks[id].late

\* ------------------------------------------------------------------------
\* C11: for each script model at most one call of handle is executing at
\* any moment, and the tasks of one model are executed one at a time in
\* the order in which they entered its channel: a task is started only
\* after every task that entered before it has been finished.
\* ------------------------------------------------------------------------
Running(m) ==
    {id \in 1..Len(stasks) : stasks[id].model = m /\ stasks[id].state = "running"}

Started(id) == stasks[id].state \in {"running", "done"}

C13_FailedCallKeepsWorker ==
    /\ \A c \in Callers :
          LET task == stasks[stid[c]]
          IN  spc[c] = "waiting" /\ task.state = "done" /\ task.result = "Internal"
                 => task.resp = "Internal"
    /\ sret.kind = "Internal" => ~sret.late
    /\ \A m \in ScriptModels : sworker[m] # Exited
    /\ published = 1
    /\ Len(snaps) = 1

\* The caller of a failed call got Internal, and the worker has gone on to
\* the task that was queued behind it.
C13_Witness ==
    /\ sret.kind = "Internal"
    /\ \E id \in 1..Len(stasks) :
          /\ stasks[id].model = stasks[sret.task].model
          /\ stasks[id].seq > stasks[sret.task].seq
          /\ Started(id)

\* ------------------------------------------------------------------------
\* C14
\* ------------------------------------------------------------------------
EventCount(type, id) ==
    Cardinality({i \in 1..Len(hsent) : hsent[i] = InteractiveEvent(type, id)})

\* The reply() calls that found the entry of id and have not returned yet
Replying(id) == {o \in Operators : opc[o].pc # "idle" /\ opc[o].id = id}

\* A step in which a reply() call found no entry, and one in which it
\* found one
ReplyMissed == nrep' # nrep /\ opc' = opc
ReplyFound == nrep' # nrep /\ opc' # opc

\* C14: a reply(id, payload) that finds id pending removes the entry, sends
\* payload on the reply channel of that entry (where it is unless the
\* receiver is gone), broadcasts one replied event for id and returns true;
\* a reply to an id that is not pending returns false at once and changes
\* neither the pending map nor the events nor any reply channel.  So, per
\* id, at most one reply() call ever finds the entry: a second one returns
\* false.
C14_Reply ==
    /\ [](\A id \in RequestIds :
             /\ Cardinality(Replying(id)) + EventCount("replied", id) <= 1
             /\ Replying(id) # {} => id \notin hpending
             /\ hchan[id].made =>
                   /\ hchan[id].sends =
                          EventCount("replied", id)
                          + Cardinality({o \in Replying(id) : opc[o].pc = "publish"})
                   /\ is_some(hchan[id].value) =>
                          \E o \in Operators :
                             /\ hchan[id].value = Some(HubPayload(o))
                             /\ \/ o \in Replying(id) /\ opc[o].pc = "publish"
                                \/ EventCount("replied", id) = 1)
    /\ [](oret.found =>
             /\ oret.id \notin hpending
             /\ EventCount("replied", oret.id) = 1
             /\ hchan[oret.id].sends = 1
             /\ hchan[oret.id].value \in {Some(HubPayload(oret.who)), None}
             /\ hchan[oret.id].value = None => hchan[oret.id].rx = "dropped")
    /\ [][ReplyMissed =>
             /\ ~oret'.found
             /\ oret'.id \notin hpending
             /\ hpending' = hpending
             /\ hsent' = hsent
             /\ hchan' = hchan]_vars
    /\ [][ReplyFound =>
             \E o \in Operators :
                /\ opc[o].pc = "idle" /\ opc'[o].pc = "deliver"
                /\ opc'[o].id \in hpending
                /\ hpending' = hpending \ {opc'[o].id}
                /\ hsent' = hsent
                /\ oret' = oret]_vars

\* A reply to an id that another reply() call has answered before returned
\* false, and the payload of the first call is in the channel
C14_Witness ==
    /\ oret.who # "none"
    /\ ~oret.found
    /\ EventCount("replied", oret.id) = 1
    /\ \E o \in Operators \ {oret.who} : hchan[oret.id].value = Some(HubPayload(o))

\* ------------------------------------------------------------------------
\* C15
\* ------------------------------------------------------------------------
\* SpecHubFair: the handlers and one operator, where the clock advances, a
\* handler that can take its next step takes it, and a reply() call under
\* way returns
HubFairNext ==
    \/ HandlerNext
    \/ OperatorNext("o1")

SpecHubFair ==
    /\ HubInit
    /\ [][HubFairNext]_vars
    /\ WF_vars(HubTick)
    /\ \A r \in RequestIds :
          WF_vars(HubEnqueueSend(r) \/ HubPrelude(r) \/ HubReceive(r) \/ HubElapsed(r)
                  \/ HubTimeoutRemove(r) \/ HubTimeoutSend(r))
    /\ WF_vars(ReplyDeliver("o1") \/ ReplyPublish("o1"))

RECURSIVE Flatten(_)
Flatten(parts) == IF parts = <<>> THEN <<>> ELSE Head(parts) \o Flatten(Tail(parts))

\* The deltas of a stream that carry the given field, in order
Deltas(events, field) ==
    SelectSeq(events, LAMBDA e : e.json /\ field \in DOMAIN e.delta)

DeltaText(events, field) ==
    LET ds == Deltas(events, field)
    IN  Flatten([i \in 1..Len(ds) |-> ds[i].delta[field]])

\* What a client has got of a completed request: the content, the
\* reasoning, the finish_reason
ContentGot(out) ==
    IF is_some(out.body) THEN unwrap(out.body).content
    ELSE DeltaText(out.events, "content")

ReasoningGot(out) ==
    IF is_some(out.body) THEN unwrap(out.body).reasoning_content
    ELSE IF Deltas(out.events, "reasoning_content") = <<>> THEN None
         ELSE Some(DeltaText(out.events, "reasoning_content"))

FinishGot(out) ==
    IF is_some(out.body) THEN Some(unwrap(out.body).finish_reason)
    ELSE LET ends == SelectSeq(out.events, LAMBDA e : e.json /\ is_some(e.finish_reason))
         IN  IF ends = <<>> THEN None ELSE ends[Len(ends)].finish_reason

\* The requests that completed after their wait ended without a reply
TimedOut == {r \in RequestIds : hout[r].complete /\ hout[r].timed_out}

FakeReasoningSent(r) ==
    IF hcfg[r].stream /\ is_some(hcfg[r].fake_reasoning)
       /\ hcfg[r].reasoning_mode = "field"
    THEN hcfg[r].fake_reasoning ELSE None

FallbackCompleted ==
    \A r \in TimedOut :
       /\ ContentGot(hout[r]) = hcfg[r].fallback_text
       /\ ReasoningGot(hout[r]) = FakeReasoningSent(r)
       /\ FinishGot(hout[r]) = Some("stop")
       /\ r \notin hpending
       /\ \/ EventCount("timeout", r) = 1 /\ EventCount("replied", r) = 0
                /\ Replying(r) = {}
          \/ EventCount("timeout", r) = 0
                /\ Cardinality(Replying(r)) + EventCount("replied", r) = 1

Terminal(id) == EventCount("replied", id) + EventCount("timeout", id)

\* The requests whose enqueue has returned
Enqueued == {r \in RequestIds : hpc[r] \notin {"new", "locked"}}

\* C16 as stated: one queued event per request id, and one terminal event,
\* replied or timeout, by the time the request has completed.
C16_AsStated ==
    \A r \in RequestIds :
       /\ EventCount("queued", r) = IF r \in Enqueued THEN 1 ELSE 0
       /\ Terminal(r) <= 1
       /\ hpc[r] = "done" => Terminal(r) = 1

\* C16, amended: per request id the hub emits one queued event and never
\* more than one terminal event, replied or timeout, also when reply(id)
\* races timeout(id); there is exactly one once the request has completed
\* and no reply(id) call that removed the entry is still under way.
C16_OneTerminalEvent ==
    \A r \in RequestIds :
       /\ EventCount("queued", r) = IF r \in Enqueued THEN 1 ELSE 0
       /\ Terminal(r) <= 1
       /\ Terminal(r) = 1 => r \in Enqueued /\ r \notin hpending
       /\ hpc[r] = "done" /\ Replying(r) = {} => Terminal(r) = 1

\* The race: the handler has completed with the fallback, its timeout(id)
\* found no entry, and the one terminal event is the replied of the reply()
\* call that took the entry
C16_Witness ==
    \E r \in TimedOut :
       /\ hpc[r] = "done"
       /\ Replying(r) = {}
       /\ EventCount("replied", r) = 1
       /\ EventCount("timeout", r) = 0
       /\ hchan[r].value = None

\* ------------------------------------------------------------------------
\* C17
\* ------------------------------------------------------------------------
\* C17: no hub operation sends an event on the broadcast channel while it
\* holds the mutex of the pending map: in every step that sends an event,
\* enqueue's, reply's or timeout's, the mutex is free.
C17_NoPublishUnderLock == [][hsent' # hsent => hlock = None]_vars

\* ------------------------------------------------------------------------
\* C18
\* ------------------------------------------------------------------------
\* The events sent that a receiver has not read yet
Unread(s) == Len(hsent) + 1 - hsubs[s].next

\* The entries that the operations made so far leave in the map, whatever
\* the receivers did
PendingByOperations ==
    {r \in RequestIds :
        /\ hpc[r] \in {"locked", "prelude", "waiting", "expired"}
        /\ Replying(r) = {}
        /\ EventCount("replied", r) = 0}

\* C18: sending an event never blocks and never fails a hub operation.  An
\* enqueue, reply or timeout that has come to its send can take it and
\* return, with no receiver, with receivers that keep up and with a
\* receiver that is EventCap events or more behind; the pending map and
\* the events sent are what the operations made of them; what a receiver
\* that lags has lost are events sent before the one it reads next.
C18_PublishNeverBlocks ==
    /\ \A r \in RequestIds :
          /\ hpc[r] = "locked" => ENABLED HubEnqueueSend(r)
          /\ hpc[r] = "removed" => ENABLED HubTimeoutSend(r)
    /\ \A o \in Operators : opc[o].pc = "publish" => ENABLED ReplyPublish(o)
    /\ hpending = PendingByOperations
    /\ \A r \in RequestIds :
          /\ EventCount("queued", r) = IF r \in Enqueued THEN 1 ELSE 0
          /\ hpc[r] = "done" /\ Replying(r) = {} => Terminal(r) = 1
    /\ \A s \in Subscribers :
          hsubs[s].active =>
             /\ Unread(s) >= 0
             /\ hsubs[s].lost < hsubs[s].next

\* A timeout() has sent its event and returned while a receiver had
\* EventCap events to read, and the receiver is more than EventCap behind
C18_Witness ==
    /\ \E s \in Subscribers : hsubs[s].active /\ Unread(s) > EventCap
    /\ \E r \in TimedOut : EventCount("timeout", r) = 1

\* ------------------------------------------------------------------------
\* C19
\* ------------------------------------------------------------------------
\* A step of a reload() call, whatever it comes to
ReloadStep ==
    <<rpc, rret, snaps, published, last_start>>'
        # <<rpc, rret, snaps, published, last_start>>

\* C19: no step of reload(), be it debounced, failed or successful up to
\* and through the swap, changes the pending map of the hub, its reply
\* channels, its receivers or its events; and a reply(id) finds the entry of
\* every pending id, whatever snapshot was published when the request was
\* enqueued and however many reloads there were since.
C19_HubIndependentOfSnapshots ==
    /\ [][ReloadStep => UNCHANGED <<hpending, hchan, hsubs, hsent, hlock>>]_vars
    /\ [][ReplyMissed => oret'.id \notin hpending]_vars
    /\ [][ReplyFound => \E o \in Operators :
                           /\ opc'[o].pc = "deliver"
                           /\ opc'[o].id \in hpending
                           /\ opc'[o].id \notin hpending']_vars

\* A reply has found and answered, after a failed reload, a request that
\* was enqueued under a snapshot that is no longer the published one, and
\* the receiver that subscribed before the reloads is still there
C19_Witness ==
    /\ oret.found
    /\ hcfg[oret.id].snap # published
    /\ hchan[oret.id].value = Some(HubPayload(oret.who))
    /\ rret.kind = "Internal"
    /\ ncalls = MaxReloadCalls
    /\ \E s \in Subscribers : hsubs[s].active /\ hsubs[s].next = 1

\* ------------------------------------------------------------------------
\* C20
\* ------------------------------------------------------------------------
IsDelta(e, field) == e.json /\ DOMAIN e.delta = {field}
IsTerminal(e) == e.json /\ DOMAIN e.delta = {} /\ is_some(e.finish_reason)

\* The finish_reason of the reply that is streamed
ReplyFinish ==
    IF fin.kind = "interactive"
    THEN IF fin.timed_out \/ fin.finish_reason = None THEN "stop"
         ELSE unwrap(fin.finish_reason)
    ELSE unwrap(fin.finish_reason)

\* C20: an SSE stream of a chat completion, static, script or interactive,
\* is one role delta, then reasoning_content deltas, then content deltas,
\* then one terminal delta with an empty delta and the finish_reason of the
\* reply, then [DONE] and nothing more; every event before the terminal one
\* has finish_reason null and no reasoning_content delta follows a content
\* delta.
C20_StreamOrder ==
    fin.op = "stream" /\ fout.stage = "done" =>
       LET e == fout.events
           n == Len(e)
       IN  /\ n >= 3
           /\ e[1] = role_chunk
           /\ e[n] = DoneEvent
           /\ IsTerminal(e[n - 1])
           /\ e[n - 1].finish_reason = Some(ReplyFinish)
           /\ \A i \in 1..(n - 2) : e[i].json /\ e[i].finish_reason = None
           /\ \A i \in 2..(n - 2) :
                  IsDelta(e[i], "reasoning_content") \/ IsDelta(e[i], "content")
           /\ \A i, j \in 2..(n - 2) :
                  i < j /\ IsDelta(e[i], "content") => IsDelta(e[j], "content")

\* An interactive stream with fake_reasoning deltas, then the deltas of the
\* reasoning of the reply, then two content deltas
C20_Witness ==
    /\ fin.op = "stream" /\ fout.stage = "done"
    /\ fin.kind = "interactive"
    /\ Len(Deltas(fout.events, "reasoning_content")) = 3
    /\ Len(Deltas(fout.events, "content")) = 2

\* ------------------------------------------------------------------------
\* C21
\* ------------------------------------------------------------------------
\* SpecHubStream: the handlers and an operator, where the stream of
\* build_interactive_sse_stream is polled event by event up to its wait,
\* under each reasoning mode
CfgHubMode(mode) ==
    [models |-> CfgHub.models, aliases |-> CfgHub.aliases,
     response |-> [reasoning_mode |-> mode]]

\* build_interactive_sse_stream, its first yield: the role delta; then the
\* pipeline sleeps stream_first_delay_ms
HubRole(r) ==
    /\ hpc[r] = "prelude"
    /\ hout' = [hout EXCEPT ![r].events = <<role_chunk>>]
    /\ hpc' = [hpc EXCEPT ![r] = "pacing"]
    /\ UNCHANGED <<hpending, hlock, hsent, hsubs, hchan, hcfg, hwait, opc,
                   oret, nrep, pvars, kvars, qvars, svars>>

\* build_interactive_sse_stream from the end of the sleep to its wait: the
\* deltas of fake_reasoning, then the timer starts
HubFakeReasoning(r) ==
    /\ hpc[r] = "pacing"
    /\ hout' = [hout EXCEPT ![r].events =
                   @ \o Tail(interactive_prelude(hcfg[r].fake_reasoning,
                                                 hcfg[r].reasoning_mode,
                                                 hcfg[r].chunk_size))]
    /\ hpc' = [hpc EXCEPT ![r] = "waiting"]
    /\ hwait' = [hwait EXCEPT ![r] = 0]
    /\ UNCHANGED <<hpending, hlock, hsent, hsubs, hchan, hcfg, opc, oret,
                   nrep, pvars, kvars, qvars, svars>>

HubStreamInit ==
    /\ PureIdle
    /\ \E mode \in ReasoningModes : KernelStartWith(CfgHubMode(mode))
    /\ RequestsStart
    /\ ScriptStart
    /\ HubStart

HubStreamNext ==
    \/ HubTick
    \/ \E r \in RequestIds :
          \/ HubBegin(r)
          \/ HubEnqueueSend(r)
          \/ HubRole(r)
          \/ HubFakeReasoning(r)
          \/ HubReceive(r)
          \/ HubElapsed(r)
          \/ HubTimeoutRemove(r)
          \/ HubTimeoutSend(r)
    \/ OperatorNext("o2")

SpecHubStream == HubStreamInit /\ [][HubStreamNext]_vars

\* The streaming requests whose pipeline has not come to its wait, and
\* those that wait or whose wait has ended without a reply
BeforeWait == {r \in RequestIds : hpc[r] \in {"locked", "prelude", "pacing"}}
InWait == {r \in RequestIds : hpc[r] \in {"waiting", "expired", "removed"}}

\* An event that only follows the wait: a content delta, the terminal
\* delta, [DONE]
AfterReply(e) == IsDelta(e, "content") \/ IsTerminal(e) \/ e = DoneEvent

\* What the pipeline streams of the reply v: its content and reasoning as
\* the reasoning mode has them, and its finish_reason
StreamsReply(r, v) ==
    LET mode == hcfg[r].reasoning_mode
        sent == IF FakeReasoningSent(r) = None THEN <<>>
                ELSE unwrap(FakeReasoningSent(r))
        think == is_some(v.reasoning) /\ mode = "prefix"
        field == is_some(v.reasoning) /\ mode = "field"
    IN  /\ ~hout'[r].timed_out
        /\ hout'[r].complete
        /\ ContentGot(hout'[r]) =
              IF think THEN ThinkOpen \o unwrap(v.reasoning) \o ThinkClose \o v.content
              ELSE v.content
        /\ DeltaText(hout'[r].events, "reasoning_content") =
              IF field THEN sent \o unwrap(v.reasoning) ELSE sent
        /\ FinishGot(hout'[r]) = Some(unwrap_or(v.finish_reason, "stop"))

\* C21: in interactive streaming the role delta and, in reasoning mode
\* field, the fake_reasoning deltas are out before the pipeline starts to
\* wait for the reply of the operator; no content delta, terminal delta or
\* [DONE] is out until the reply has been received or the timeout has
\* fired; and a reply that the operator sent while the pipeline was in its
\* pacing sleep or emitting fake_reasoning stays in the channel and is the
\* one streamed.
C21_ReplyAfterPrelude ==
    /\ [](\A r \in RequestIds :
             hpc[r] # "new" /\ hcfg[r].stream =>
                LET e == hout[r].events
                IN  /\ hpc[r] \in {"locked", "prelude"} => e = <<>>
                    /\ hpc[r] = "pacing" => e = <<role_chunk>>
                    /\ r \in InWait =>
                          /\ e # <<>> /\ e[1] = role_chunk
                          /\ \A i \in 2..Len(e) : IsDelta(e[i], "reasoning_content")
                          /\ ReasoningGot(hout[r]) = FakeReasoningSent(r)
                    /\ ~hout[r].complete => \A i \in 1..Len(e) : ~AfterReply(e[i])
                    /\ hout[r].complete =>
                          \/ hout[r].timed_out /\ hchan[r].value = None
                          \/ ~hout[r].timed_out /\ is_some(hchan[r].value))
    /\ [][\A r \in RequestIds :
             r \in BeforeWait \cup {q \in RequestIds : hpc[q] = "waiting"}
             /\ hcfg[r].stream /\ is_some(hchan[r].value)
                => /\ hchan'[r].value = hchan[r].value
                   /\ hpc'[r] \in {"prelude", "pacing", "waiting", "done"}
                   /\ hpc'[r] = "done" => StreamsReply(r, unwrap(hchan[r].value))]_vars

\* The operator's reply, with reasoning, is in the channel and the call has
\* returned true while the pipeline, whose model has fake_reasoning, is in
\* its pacing sleep with the role delta out
C21_Witness ==
    \E r \in RequestIds :
       /\ hpc[r] = "pacing"
       /\ hcfg[r].stream
       /\ hcfg[r].reasoning_mode = "field"
       /\ is_some(hcfg[r].fake_reasoning)
       /\ hchan[r].value = Some(HubPayload("o2"))
       /\ oret.found /\ oret.id = r

\* ------------------------------------------------------------------------
\* C22
\* ------------------------------------------------------------------------
\* SpecChunk: chunk_text on texts of up to MaxChunkLen scalars
MaxChunkLen == 5

ChunkInputs ==
    [op : {"chunk_text"}, text : SeqsUpTo({"a", "b"}, MaxChunkLen),
     chunk_size : 0..(MaxChunk + 1)]

ChunkInit ==
    /\ fin \in ChunkInputs
    /\ fout = NoOut
    /\ KernelStart
    /\ RequestsStart
    /\ ScriptStart
    /\ HubStart

ApplyChunkText ==
    /\ fin.op = "chunk_text"
    /\ fout = NoOut
    /\ fout' = [stage |-> "done", parts |-> chunk_text(fin.text, fin.chunk_size)]
    /\ UNCHANGED <<fin, kvars, qvars, svars, hvars>>

SpecChunk == ChunkInit /\ [][ApplyChunkText]_vars

\* C22: chunk_text(text, c) partitions the text by Unicode scalar.  For
\* c > 0 and a text of L scalars it returns ceil(L/c) chunks, each of c
\* scalars but for the last, which has between 1 and c, and the chunks
\* concatenated in order are the text; for c = 0 it returns one chunk, the
\* whole text.
C22_ChunkText ==
    fin.op = "chunk_text" /\ fout.stage = "done" =>
       LET parts == fout.parts
           n == Len(parts)
           L == Len(fin.text)
           c == fin.chunk_size
       IN  IF c = 0 THEN parts = <<fin.text>>
           ELSE /\ n = Ceil(L, c)
                /\ \A i \in 1..(n - 1) : Len(parts[i]) = c
                /\ n > 0 => Len(parts[n]) \in 1..c
                /\ Flatten(parts) = fin.text

\* A text that chunk_size does not divide: two full chunks and a shorter
\* last one
C22_Witness ==
    /\ fin.op = "chunk_text" /\ fout.stage = "done"
    /\ fin.chunk_size = 2
    /\ Len(fin.text) = 5
    /\ Len(fout.parts) = 3
    /\ Len(fout.parts[3]) = 1

\* ------------------------------------------------------------------------
\* C23
\* ------------------------------------------------------------------------
\* SpecRespond: chat_completions from the reply on, with and without
\* stream, for the three kinds of model and the three reasoning modes
ThinkEnd == SubSeq(ThinkClose, 1, 8)

\* The contents a rule, a script or an operator supplies; one of them has a
\* think block of its own
RespondContents ==
    {<<>>, <<"a">>, <<"a", "b">>, ThinkOpen \o <<"x">> \o ThinkEnd \o <<"a">>}

RespondInputs ==
    [op : {"respond"}, kind : {"static", "script"}, stream : BOOLEAN,
     content : RespondContents, reasoning : ReasoningTexts,
     finish_reason : {Some("stop")}, mode : ReasoningModes,
     stream_chunk_chars : {None, Some(1)}, fake_reasoning : {None},
     timed_out : {FALSE}, fallback_text : {<<"o">>}]
    \cup
    [op : {"respond"}, kind : {"interactive"}, stream : BOOLEAN,
     content : RespondContents, reasoning : ReasoningTexts,
     finish_reason : {None}, mode : ReasoningModes,
     stream_chunk_chars : {None, Some(1)},
     fake_reasoning : {None, Some(<<"f", "g">>)}, timed_out : BOOLEAN,
     fallback_text : {<<"o">>}]

RespondInit ==
    /\ fin \in RespondInputs
    /\ fout = NoOut
    /\ KernelStart
    /\ RequestsStart
    /\ ScriptStart
    /\ HubStart

\* chat_completions with stream = false, from the reply on
json_body(in) ==
    IF in.kind = "interactive"
    THEN LET reply == IF in.timed_out THEN fallback_reply(in.fallback_text)
                      ELSE InteractiveReply(in.content, in.reasoning,
                                            in.finish_reason)
         IN  interactive_body(reply, in.mode)
    ELSE LET out == apply_reasoning(in.content, in.reasoning, in.mode)
         IN  completion_body(out.content, out.reasoning, unwrap(in.finish_reason))

ApplyRespond ==
    /\ fin.op = "respond"
    /\ fout = NoOut
    /\ fout' = IF fin.stream
               THEN [stage |-> "done", events |-> sse_events(fin), body |-> None]
               ELSE [stage |-> "done", events |-> <<>>, body |-> Some(json_body(fin))]
    /\ UNCHANGED <<fin, kvars, qvars, svars, hvars>>

SpecRespond == RespondInit /\ [][ApplyRespond]_vars

\* A <think>...</think> block in a text
HasThinkBlock(s) ==
    \E k \in 0..(Len(s) - Len(ThinkOpen)) :
       /\ SubSeq(s, k + 1, k + Len(ThinkOpen)) = ThinkOpen
       /\ contains(SubSeq(s, k + Len(ThinkOpen) + 1, Len(s)), ThinkEnd)

\* No reasoning_content in the response: no field of the body, no delta of
\* the stream
NoReasoningContent(out) ==
    /\ ReasoningGot(out) = None
    /\ ~is_some(out.body) => Deltas(out.events, "reasoning_content") = <<>>

\* The content the response is made of: the fallback text when the wait for
\* the operator timed out, else what the rule, script or operator supplied
Supplied(in) ==
    IF in.kind = "interactive" /\ in.timed_out THEN in.fallback_text ELSE in.content

\* C23 as stated: with reasoning_mode none no response has a
\* reasoning_content field or delta, and the returned content has no
\* <think>...</think> block, whatever content and reasoning were supplied.
C23_AsStated ==
    fin.op = "respond" /\ fout.stage = "done" /\ fin.mode = "none" =>
       /\ NoReasoningContent(fout)
       /\ ~HasThinkBlock(ContentGot(fout))

\* C23, amended: with reasoning_mode none no response has a
\* reasoning_content field (non-streaming body) or a reasoning_content
\* delta (streaming, the fake_reasoning of the interactive pipeline
\* included), and the returned content is the supplied content unchanged:
\* it has a <think>...</think> block only if the content that the static
\* rule, the script or the operator supplied has one, whatever reasoning
\* they supplied.
C23_NoneDropsReasoning ==
    fin.op = "respond" /\ fout.stage = "done" /\ fin.mode = "none" =>
       /\ NoReasoningContent(fout)
       /\ ContentGot(fout) = Supplied(fin)
       /\ HasThinkBlock(ContentGot(fout)) => HasThinkBlock(Supplied(fin))

\* An interactive stream under mode none, of a model with fake_reasoning
\* and a reply with reasoning: the content and nothing of either reasoning
C23_Witness ==
    /\ fin.op = "respond" /\ fout.stage = "done" /\ fin.mode = "none"
    /\ fin.kind = "interactive" /\ fin.stream /\ ~fin.timed_out
    /\ is_some(fin.fake_reasoning)
    /\ is_some(fin.reasoning)
    /\ fin.content = <<"a", "b">>
    /\ ContentGot(fout) = <<"a", "b">>
    /\ Len(fout.events) = 5

\* ------------------------------------------------------------------------
\* C24
\* ------------------------------------------------------------------------
\* SpecReasoning: the two transformations of (content, reasoning) under a
\* reasoning mode, side by side
ReasoningInputs ==
    [op : {"reasoning"}, content : Texts \cup RespondContents,
     reasoning : ReasoningTexts, mode : ReasoningModes]

ReasoningInit ==
    /\ fin \in ReasoningInputs
    /\ fout = NoOut
    /\ KernelStart
    /\ RequestsStart
    /\ ScriptStart
    /\ HubStart

ApplyReasoning ==
    /\ fin.op = "reasoning"
    /\ fout = NoOut
    /\ fout' = [stage |-> "done",
                handler |-> apply_reasoning(fin.content, fin.reasoning, fin.mode),
                pipeline |-> interactive_reasoning(fin.content, fin.reasoning,
                                                   fin.mode)]
    /\ UNCHANGED <<fin, kvars, qvars, svars, hvars>>

SpecReasoning == ReasoningInit /\ [][ApplyReasoning]_vars

\* C24: the reasoning-mode transformation is the same on every path.  For
\* every (content, reasoning, mode), apply_reasoning and the match in the
\* interactive streaming pipeline return the same pair: under prefix with
\* reasoning, "<think>" + reasoning + "</think>\n" + content and no
\* reasoning field; under field with reasoning, the content and the
\* reasoning; in every other case the content and no reasoning field.
C24_SameTransformation ==
    fin.op = "reasoning" /\ fout.stage = "done" =>
       /\ fout.handler = fout.pipeline
       /\ fout.handler =
             IF fin.reasoning # None /\ fin.mode = "prefix"
             THEN [content |-> <<"<", "t", "h", "i", "n", "k", ">">>
                               \o unwrap(fin.reasoning)
                               \o <<"<", "/", "t", "h", "i", "n", "k", ">", "\n">>
                               \o fin.content,
                   reasoning |-> None]
             ELSE IF fin.reasoning # None /\ fin.mode = "field"
             THEN [content |-> fin.content, reasoning |-> fin.reasoning]
             ELSE [content |-> fin.content, reasoning |-> None]

\* Reasoning under prefix: both paths return the think block, a newline
\* and the content, and no reasoning field
C24_Witness ==
    /\ fin.op = "reasoning" /\ fout.stage = "done"
    /\ fin.mode = "prefix"
    /\ fin.reasoning = Some(<<"r", "s">>)
    /\ fin.content = <<"a">>
    /\ Len(fout.pipeline.content) = 19
    /\ fout.pipeline.reasoning = None
    /\ fout.handler = fout.pipeline

\* ------------------------------------------------------------------------
\* C25
\* ------------------------------------------------------------------------
\* SpecChat: chat_completions from the body of the request on, for
\* requests without messages, without a model, with a model id of the
\* wrong shape and with ids of models and aliases that resolve or do not
MaxChats == 2

Message(role, content) == [role |-> role, content |-> content]

\* last_input_text: the content of the last message with role user, else
\* of the last message with role system
last_input_text_last_message(messages) ==
    LET given == {i \in 1..Len(messages) : messages[i].role \in {"user", "system"}}
    IN  IF given # {}
        THEN Some(messages[CHOOSE i \in given : \A j \in given : j <= i].content)
        ELSE None

last_input_text(messages) ==
    LET users == {i \in 1..Len(messages) : messages[i].role = "user"}
        systems == {i \in 1..Len(messages) : messages[i].role = "system"}
    IN  IF users # {}
        THEN Some(messages[CHOOSE i \in users : \A j \in users : j <= i].content)
        ELSE IF systems # {}
        THEN Some(messages[CHOOSE i \in systems : \A j \in systems : j <= i].content)
        ELSE None

public_id_for_default(kernel, name) ==
    IF name \in DOMAIN kernel.aliases
    THEN IF kernel.aliases[name].disabled
         THEN Err("NotFound", "model not found")
         ELSE Ok(build_public_id(alias_owned_by(kernel.aliases[name], kernel.models),
                                 name))
    ELSE IF name \in DOMAIN kernel.models
    THEN IF kernel.models[name].disabled
         THEN Err("NotFound", "model not found")
         ELSE Ok(build_public_id(kernel.models[name].owned_by, name))
    ELSE Err("NotFound", "model not found")

\* chat_completions from the parsed body to model_id
chat_model_id(kernel, req) ==
    IF ~is_some(req.messages) \/ req.messages = Some(<<>>)
    THEN Err("BadRequest", "messages is required")
    ELSE IF is_some(req.model)
    THEN IF ~is_some(split_public_id(unwrap(req.model)))
         THEN Err("BadRequest", "model must be prefix/name")
         ELSE Ok(unwrap(req.model))
    ELSE IF ~is_some(kernel.catalog.default_model)
    THEN Err("BadRequest", "model is required")
    ELSE public_id_for_default(kernel, unwrap(kernel.catalog.default_model))

\* A catalog with a disabled model d, a round-robin alias g of two enabled
\* models and an alias h whose one provider is disabled
ChatModels ==
    <<StaticM, StaticF,
      StaticModel(<<"d">>, <<"l">>, TRUE, [pick |-> None, rules |-> <<RuleDefault>>]),
      ScriptModel(<<"s">>, <<"l">>, TRUE)>>

ChatAliases ==
    <<Alias(<<"g">>, <<<<"m">>, <<"f">>>>, "round_robin"),
      Alias(<<"h">>, <<<<"d">>>>, "round_robin")>>

CfgChat ==
    {[models |-> ChatModels, aliases |-> ChatAliases],
     [models |-> ChatModels, aliases |-> ChatAliases, default_model |-> <<"g">>],
     [models |-> ChatModels, aliases |-> ChatAliases, default_model |-> <<"d">>]}

ChatRequests ==
    [messages : {None, Some(<<>>), Some(<<Message("user", <<"a">>)>>)},
     model : {None, Some(<<"m">>), Some(<<"/", "m">>)}
             \cup {Some(build_public_id(<<"l">>, n)) :
                      n \in {<<"g">>, <<"m">>, <<"d">>, <<"h">>, <<"s">>, <<"x">>}}
             \cup {Some(build_public_id(<<"k">>, n)) : n \in {<<"g">>, <<"m">>}}]

ChatInit ==
    /\ PureIdle
    /\ \E c \in CfgChat : KernelStartWith(c)
    /\ RequestsStart
    /\ ScriptStart
    /\ HubStart

\* chat_completions up to resolve_public_model
ChatBegin(q) ==
    /\ qpc[q] = "idle"
    /\ wlock = None
    /\ nreq < MaxChats
    /\ nreq' = nreq + 1
    /\ \E req \in ChatRequests :
          LET id == chat_model_id(snaps[published], req)
          IN  IF id.ok
              THEN /\ qpc' = [qpc EXCEPT ![q] = "resolve"]
                   /\ qin' = [qin EXCEPT ![q] =
                                 [public_id |-> id.v,
                                  text |-> unwrap(last_input_text(
                                                      unwrap(req.messages)))]]
                   /\ qsnap' = [qsnap EXCEPT ![q] = published]
                   /\ qview' = [qview EXCEPT ![q] = tables(snaps[published])]
                   /\ UNCHANGED qret
              ELSE /\ qret' = [who |-> q, kind |-> "err", snap |-> published,
                               used |-> {}, res |-> id]
                   /\ UNCHANGED <<qpc, qin, qsnap, qview>>
    /\ UNCHANGED <<qmodel, qused, pvars, svars, hvars, kvars>>

ChatNext ==
    \E q \in Requests :
       \/ ChatBegin(q)
       \/ ReqResolve(q)
       \/ ReqReply(q)

SpecChat == ChatInit /\ [][ChatNext]_vars

\* The steps in which chat_completions returns before resolve_public_model,
\* and in which it returns what resolve_public_model failed with
RejectedAtOnce == nreq' # nreq /\ qpc' = qpc
RejectedByResolver == \E q \in Requests : qpc[q] = "resolve" /\ qpc'[q] = "idle"

Rejection(ret) ==
    ret.kind = "err" /\ ret.res.kind \in {"BadRequest", "NotFound"}

\* C25: a chat request rejected with BadRequest (messages missing or empty,
\* model given but not of the shape prefix/name with both halves
\* non-empty, model omitted and no default_model in the catalog) or with
\* NotFound (model unknown or disabled, prefix mismatch, alias without an
\* enabled provider) changes no state: no counter of an alias or of a rule
\* advances, nothing is enqueued in the interactive hub and no script task
\* is queued.
C25_RejectionChangesNothing ==
    /\ [][RejectedAtOnce \/ RejectedByResolver =>
             /\ Rejection(qret')
             /\ snaps' = snaps
             /\ UNCHANGED <<hvars, svars>>]_vars
    /\ [][qret' # qret /\ Rejection(qret') =>
             /\ snaps' = snaps
             /\ UNCHANGED <<hvars, svars>>]_vars

\* A request for the alias whose providers are all disabled got NotFound
\* after a request through the round-robin alias had advanced that alias's
\* counter
C25_Witness ==
    /\ qret.kind = "err"
    /\ qret.res = Err("NotFound", "no enabled providers")
    /\ counter(snaps[published].alias_rr, <<"g">>) = 1
    /\ <<"h">> \notin DOMAIN snaps[published].alias_rr

\* ------------------------------------------------------------------------
\* C26
\* ------------------------------------------------------------------------
\* The number of conditions of a when clause
Conditions(when) == Len(when.any) + Len(when.all) + Len(when.none)

DefaultRules(cfg) == {i \in 1..Len(cfg.rules) : cfg.rules[i].default}

WellFormedRules(cfg) ==
    /\ Len(cfg.rules) >= 1
    /\ Cardinality(DefaultRules(cfg)) = 1
    /\ \A i \in DefaultRules(cfg) : cfg.rules[i].when = NoWhen
    /\ \A i \in (1..Len(cfg.rules)) \ DefaultRules(cfg) :
          /\ cfg.rules[i].when # NoWhen
          /\ Conditions(cfg.rules[i].when) >= 1
    /\ \A i \in 1..Len(cfg.rules) : Len(cfg.rules[i].replies) >= 1

\* C26: every static model that the load accepts has a non-empty rule list
\* in which exactly one rule has default = true, and that rule has no
\* when; every other rule has a when with at least one condition in any,
\* all or none; every rule has at least one reply.  A model that violates
\* any of these is rejected at load.
C26_AcceptedRulesWellFormed ==
    fin.op = "select_rule" =>
       /\ fout.stage \in {"loaded", "selected"} => WellFormedRules(fin.cfg)
       /\ fout.stage # "init" /\ ~WellFormedRules(fin.cfg) =>
             fout = [stage |-> "rejected", by |-> "validate_static_rules"]

\* A model of three rules, the default one between two conditioned ones,
\* has been accepted
C26_Witness ==
    /\ fin.op = "select_rule"
    /\ fout.stage = "loaded"
    /\ Len(fin.cfg.rules) = 3
    /\ DefaultRules(fin.cfg) = {2}
    /\ Conditions(fin.cfg.rules[3].when) = 2

\* ------------------------------------------------------------------------
\* C27
\* ------------------------------------------------------------------------
\* SpecCatalog: KernelState::load on catalogs of up to two aliases, with
\* names that are empty, blank or given twice and providers that are not
\* models of the catalog
CatalogAliases ==
    [name : {<<>>, <<" ">>, <<"g">>, <<"h">>}, owned_by : {None},
     disabled : {FALSE}, providers : SeqsUpTo({<<"m">>, <<"f">>, <<"x">>}, MaxProviders),
     strategy : {"round_robin"}]

Catalogs ==
    [models : {<<StaticM>>, <<StaticM, StaticF>>},
     aliases : SeqsUpTo(CatalogAliases, 2)]

CatalogInit ==
    /\ fin \in [op : {"load"}, cfg : Catalogs]
    /\ fout = NoOut
    /\ KernelStart
    /\ RequestsStart
    /\ ScriptStart
    /\ HubStart

\* KernelState::load: the snapshot to publish, or the failure
LoadCatalog ==
    /\ fin.op = "load"
    /\ fout = NoOut
    /\ fout' = [stage |-> "done", loaded |-> load(fin.cfg)]
    /\ UNCHANGED <<fin, kvars, qvars, svars, hvars>>

SpecCatalog == CatalogInit /\ [][LoadCatalog]_vars

\* The aliases of the catalog that have the given name
Named(cfg, n) == {i \in 1..Len(cfg.aliases) : cfg.aliases[i].name = n}

\* What the claim forbids, of a catalog
BadAliases(cfg) ==
    \E i \in 1..Len(cfg.aliases) :
       LET alias == cfg.aliases[i]
       IN  \/ alias.name = <<>>
           \/ Cardinality(Named(cfg, alias.name)) > 1
           \/ alias.providers = <<>>
           \/ \E k \in 1..Len(alias.providers) :
                 \A j \in 1..Len(cfg.models) : cfg.models[j].id # alias.providers[k]

\* C27: every alias of a snapshot that the load returns, and so of every
\* published snapshot, has a non-empty name that no other alias of the
\* catalog has, a non-empty provider list, and only providers that are ids
\* of models loaded in the same snapshot; a catalog that violates any of
\* these makes the whole load fail.
C27_AliasesWellFormed ==
    fin.op = "load" /\ fout.stage = "done" =>
       /\ fout.loaded.ok =>
             LET k == fout.loaded.state
             IN  /\ \A i \in 1..Len(fin.cfg.aliases) :
                        fin.cfg.aliases[i].name \in DOMAIN k.aliases
                 /\ \A n \in DOMAIN k.aliases :
                       /\ n # <<>>
                       /\ Cardinality(Named(fin.cfg, n)) = 1
                       /\ k.aliases[n].name = n
                       /\ Len(k.aliases[n].providers) >= 1
                       /\ \A j \in 1..Len(k.aliases[n].providers) :
                              k.aliases[n].providers[j] \in DOMAIN k.models
       /\ BadAliases(fin.cfg) => ~fout.loaded.ok

\* A snapshot of two aliases, one of them with two providers
C27_Witness ==
    /\ fin.op = "load" /\ fout.stage = "done"
    /\ fout.loaded.ok
    /\ DOMAIN fout.loaded.state.aliases = {<<"g">>, <<"h">>}
    /\ fout.loaded.state.aliases[<<"g">>].providers = <<<<"f">>, <<"m">>>>

\* ------------------------------------------------------------------------
\* C28
\* ------------------------------------------------------------------------
\* SpecTemplates: resolve_model_file on a static model file that extends
\* templates of a catalog with defaults.  Of ModelMeta the owner is
\* modelled; created, description and tags merge the same way.
default_owned_by == <<"l", "l", "m", "-", "l", "a", "b">>

\* String is set and not blank
filled(value) == is_some(value) /\ trim(unwrap(value)) # <<>>

merge_meta(base, overlay) ==
    [owned_by |-> IF filled(overlay.owned_by) THEN overlay.owned_by
                  ELSE base.owned_by]

merge_static_first_wins(base, overlay) ==
    [pick |-> IF is_some(base.pick) THEN base.pick ELSE overlay.pick,
     stream_chunk_chars |->
         IF is_some(base.stream_chunk_chars) THEN base.stream_chunk_chars
         ELSE overlay.stream_chunk_chars,
     rules |-> IF is_some(base.rules) THEN base.rules ELSE overlay.rules]

merge_static(base, overlay) ==
    [pick |-> IF is_some(overlay.pick) THEN overlay.pick ELSE base.pick,
     stream_chunk_chars |->
         IF is_some(overlay.stream_chunk_chars) THEN overlay.stream_chunk_chars
         ELSE base.stream_chunk_chars,
     rules |-> IF is_some(overlay.rules) THEN overlay.rules ELSE base.rules]

\* catalog.templates.iter().find(|tpl| tpl.name == *name)
find_template(templates, name) ==
    LET found == {i \in 1..Len(templates) : templates[i].name = name}
    IN  IF found = {} THEN None ELSE Some(templates[Min(found)])

\* resolve_model_file, its loop over model.extends
RECURSIVE merge_templates(_, _, _)
merge_templates(acc, extends, model) ==
    IF extends = <<>> \/ ~acc.ok THEN acc
    ELSE LET template == find_template(acc.templates, Head(extends))
         IN  IF ~is_some(template) THEN [ok |-> FALSE]
             ELSE IF /\ is_some(unwrap(template).kind)
                     /\ unwrap(unwrap(template).kind) # model.kind
             THEN [ok |-> FALSE]
             ELSE merge_templates(
                      [acc EXCEPT !.meta = merge_meta(acc.meta, unwrap(template).meta),
                                  !.static = merge_static(acc.static,
                                                          unwrap(template).static)],
                      Tail(extends), model)

\* resolve_model_file for a model file of kind static
resolve_model_file(model, catalog) ==
    LET meta == [owned_by |-> IF filled(catalog.defaults.owned_by)
                              THEN catalog.defaults.owned_by ELSE None]
        static_partial ==
            [pick |-> None,
             stream_chunk_chars |-> catalog.defaults.static.stream_chunk_chars,
             rules |-> None]
        merged == merge_templates([ok |-> TRUE, templates |-> catalog.templates,
                                   meta |-> meta, static |-> static_partial],
                                  model.extends, model)
    IN  IF ~merged.ok THEN [ok |-> FALSE]
        ELSE LET meta_out == merge_meta(merged.meta, model.meta)
                 static_out == merge_static(merged.static, model.static)
                 owned_by == IF filled(meta_out.owned_by) THEN unwrap(meta_out.owned_by)
                             ELSE default_owned_by
             IN  IF ~is_some(static_out.rules) THEN [ok |-> FALSE]
                 ELSE LET cfg == [pick |-> static_out.pick,
                                  stream_chunk_chars |-> static_out.stream_chunk_chars,
                                  rules |-> unwrap(static_out.rules)]
                      IN  IF ~validate_static_rules(cfg) THEN [ok |-> FALSE]
                          ELSE [ok |-> TRUE,
                                config |-> [id |-> model.id, owned_by |-> owned_by,
                                            kind |-> "static", static |-> Some(cfg)]]

\* Layers that each set their own values, so that a resolved field tells
\* the layer it came from
LayerValues(owner, pick, chunk, rules) ==
    [meta : [owned_by : {None, Some(<<" ">>), Some(owner)}],
     static : [pick : {None, Some(pick)}, stream_chunk_chars : {None, Some(chunk)},
               rules : {None, Some(rules)}]]

TemplateT1 ==
    {[name |-> <<"t", "1">>, kind |-> None, meta |-> v.meta, static |-> v.static] :
        v \in {w \in LayerValues(<<"a">>, "random", 1, <<RuleA, RuleDefault>>) :
                  w.meta.owned_by # Some(<<" ">>)}}

TemplateT2 ==
    {[name |-> <<"t", "2">>, kind |-> Some("static"), meta |-> v.meta,
      static |-> v.static] :
        v \in LayerValues(<<"b">>, "weighted", 2, <<RuleDefault>>)}

TemplateCatalogs ==
    [defaults : {[owned_by |-> None, static |-> [stream_chunk_chars |-> None]],
                 [owned_by |-> Some(<<"d">>),
                  static |-> [stream_chunk_chars |-> Some(9)]]},
     templates : {<<t1, t2>> : t1 \in TemplateT1, t2 \in TemplateT2}]

ModelFiles ==
    {[id |-> <<"m">>, kind |-> "static", extends |-> e, meta |-> v.meta,
      static |-> v.static] :
        e \in {<<>>, <<<<"t", "1">>>>, <<<<"t", "1">>, <<"t", "2">>>>,
               <<<<"t", "2">>, <<"t", "1">>>>, <<<<"t", "3">>>>},
        v \in {w \in LayerValues(<<"k">>, "round_robin", 3, <<RuleB, RuleDefault>>) :
                  w.meta.owned_by # Some(<<" ">>)}}

TemplatesInit ==
    /\ fin \in [op : {"resolve_model_file"}, catalog : TemplateCatalogs,
                model : ModelFiles]
    /\ fout = NoOut
    /\ KernelStart
    /\ RequestsStart
    /\ ScriptStart
    /\ HubStart

ApplyResolveModelFile ==
    /\ fin.op = "resolve_model_file"
    /\ fout = NoOut
    /\ fout' = [stage |-> "done",
                resolved |-> resolve_model_file(fin.model, fin.catalog)]
    /\ UNCHANGED <<fin, kvars, qvars, svars, hvars>>

SpecTemplates == TemplatesInit /\ [][ApplyResolveModelFile]_vars

\* The layers of a model file in the order of the merge: the defaults of
\* the catalog, the templates it extends as it lists them, the file itself
TemplateNamed(catalog, name) ==
    CHOOSE tpl \in {catalog.templates[i] : i \in 1..Len(catalog.templates)} :
        tpl.name = name

Layers(in) ==
    <<[owned_by |-> in.catalog.defaults.owned_by, pick |-> None,
       stream_chunk_chars |-> in.catalog.defaults.static.stream_chunk_chars,
       rules |-> None]>>
    \o [i \in 1..Len(in.model.extends) |->
           LET tpl == TemplateNamed(in.catalog, in.model.extends[i])
           IN  [owned_by |-> tpl.meta.owned_by, pick |-> tpl.static.pick,
                stream_chunk_chars |-> tpl.static.stream_chunk_chars,
                rules |-> tpl.static.rules]]
    \o <<[owned_by |-> in.model.meta.owned_by, pick |-> in.model.static.pick,
          stream_chunk_chars |-> in.model.static.stream_chunk_chars,
          rules |-> in.model.static.rules]>>

\* A layer sets a field: it gives it a value, and for the owner a value
\* that is not blank
Sets(layer, field) ==
    IF field = "owned_by" THEN filled(layer[field]) ELSE is_some(layer[field])

\* The value of the last layer that sets the field, if any does
LastSet(layers, field) ==
    LET setting == {i \in 1..Len(layers) : Sets(layers[i], field)}
    IN  IF setting = {} THEN None
        ELSE layers[CHOOSE i \in setting : \A j \in setting : j <= i][field]

\* C28: model resolution merges the defaults of the catalog, then each
\* template named in extends in the order listed, then the model file,
\* field by field, a later layer winning only for the fields it sets: a
\* field that the model file leaves unset has the value of the last
\* template that set it, else the default of the catalog; and rules are
\* replaced as a whole list, never merged element by element.
C28_MergeOrder ==
    fin.op = "resolve_model_file" /\ fout.stage = "done" /\ fout.resolved.ok =>
       LET cfg == unwrap(fout.resolved.config.static)
           layers == Layers(fin)
       IN  /\ fout.resolved.config.owned_by =
                 unwrap_or(LastSet(layers, "owned_by"), default_owned_by)
           /\ cfg.pick = LastSet(layers, "pick")
           /\ cfg.stream_chunk_chars = LastSet(layers, "stream_chunk_chars")
           /\ Some(cfg.rules) = LastSet(layers, "rules")
           /\ \E i \in 1..Len(layers) : layers[i].rules = Some(cfg.rules)

\* The model file sets its rules only and extends two templates that both
\* set pick, chunk size and rules: pick and chunk size are those of the
\* template listed last, the rules those of the file, the owner the
\* default of the catalog
C28_Witness ==
    /\ fin.op = "resolve_model_file" /\ fout.stage = "done" /\ fout.resolved.ok
    /\ fin.model.extends = <<<<"t", "2">>, <<"t", "1">>>>
    /\ fin.model.static = [pick |-> None, stream_chunk_chars |-> None,
                           rules |-> Some(<<RuleB, RuleDefault>>)]
    /\ \A i \in 1..2 : /\ is_some(fin.catalog.templates[i].static.pick)
                       /\ is_some(fin.catalog.templates[i].static.rules)
                       /\ is_some(fin.catalog.templates[i].static.stream_chunk_chars)
    /\ unwrap(fout.resolved.config.static) =
          [pick |-> Some("random"), stream_chunk_chars |-> Some(1),
           rules |-> <<RuleB, RuleDefault>>]
    /\ fout.resolved.config.owned_by = <<"d">>

\* ------------------------------------------------------------------------
\* C29
\* ------------------------------------------------------------------------
\* SpecInput: generate_reply for a static model on message lists of up to
\* MaxMessages messages: the input text, the rule it selects and what
\* {{last_user}} stands for
MaxMessages == 3

MessagePool == [role : {"system", "user", "assistant"}, content : {<<"a">>, <<"b">>}]

InputInit ==
    /\ fin \in [op : {"last_input_text"},
                messages : SeqsUpTo(MessagePool, MaxMessages)]
    /\ fout = NoOut
    /\ KernelStart
    /\ RequestsStart
    /\ ScriptStart
    /\ HubStart

\* generate_reply, select_static_reply: user_text, the rule index for it and
\* the last_user of the InterpolationContext as interpolate_value reads it
ApplyLastInputText ==
    /\ fin.op = "last_input_text"
    /\ fout = NoOut
    /\ LET user_text == last_input_text(fin.messages)
           cfg == unwrap(StaticM.static)
       IN  fout' = [stage |-> "done", user_text |-> user_text,
                    rule_idx |-> select_rule_index(cfg, Some(build_match_cache(cfg)),
                                                   user_text),
                    last_user |-> unwrap_or(user_text, <<>>)]
    /\ UNCHANGED <<fin, kvars, qvars, svars, hvars>>

SpecInput == InputInit /\ [][ApplyLastInputText]_vars

\* The message at i is the last one of its role
LastOfRole(messages, i, role) ==
    /\ messages[i].role = role
    /\ \A j \in (i + 1)..Len(messages) : messages[j].role # role

HasRole(messages, role) == \E i \in 1..Len(messages) : messages[i].role = role

\* C29: the input text used for static matching and for {{last_user}} is
\* the content of the last message with role user, wherever it stands in
\* the list; only if there is no user message is it the content of the
\* last message with role system; with neither there is no input text.  A
\* later system or assistant message never overrides an earlier user
\* message.
C29_LastInputText ==
    fin.op = "last_input_text" /\ fout.stage = "done" =>
       LET m == fin.messages
       IN  /\ \A i \in 1..Len(m) :
                  LastOfRole(m, i, "user") => fout.user_text = Some(m[i].content)
           /\ \A i \in 1..Len(m) :
                  LastOfRole(m, i, "system") /\ ~HasRole(m, "user") =>
                     fout.user_text = Some(m[i].content)
           /\ ~HasRole(m, "user") /\ ~HasRole(m, "system") => fout.user_text = None
           /\ fout.last_user = IF fout.user_text = None THEN <<>>
                               ELSE unwrap(fout.user_text)
           /\ fout.rule_idx = IF fout.user_text = Some(<<"a">>) THEN Some(0)
                              ELSE Some(1)

\* A user message followed by a system and an assistant message with
\* other contents: the text of the user message selects the rule
C29_Witness ==
    /\ fin.op = "last_input_text" /\ fout.stage = "done"
    /\ fin.messages = <<[role |-> "user", content |-> <<"a">>],
                        [role |-> "system", content |-> <<"b">>],
                        [role |-> "assistant", content |-> <<"b">>]>>
    /\ fout.user_text = Some(<<"a">>)
    /\ fout.rule_idx = Some(0)

\* ------------------------------------------------------------------------
\* C30
\* ------------------------------------------------------------------------
\* SpecCounters: requests through the round-robin alias, before, while and
\* after one caller reloads
MaxCounted == 3

CountedInputs == {in \in ChatInputs : in.public_id = build_public_id(<<"l">>, <<"g">>)}

CountersInit ==
    /\ PureIdle
    /\ KernelStartWith(CfgA)
    /\ RequestsStart
    /\ ScriptStart
    /\ HubStart

CountersBegin(q) ==
    /\ nreq < MaxCounted
    /\ BeginRequest(q, CountedInputs)

CountersNext ==
    \/ Tick
    \/ \E r \in {"r1"} :
          \/ ReloadCall(r)
          \/ ReloadDebounced(r)
          \/ Load(r)
          \/ Swap(r)
          \/ Record(r)
    \/ \E q \in Requests :
          \/ CountersBegin(q)
          \/ ReqResolve(q)
          \/ ReqReply(q)

SpecCounters == CountersInit /\ [][CountersNext]_vars

\* The counters of a snapshot
Counters(k) == <<k.alias_rr, k.rr_state>>

\* A step of the request q after its entry
RequestStep(q) == qpc[q] \in {"resolve", "reply"} /\ qpc'[q] # qpc[q]

\* A step of the reload() call under way, whatever it comes to
ReloadCallStep == <<rpc, rret, published, last_start>>' # <<rpc, rret, published, last_start>>

\* The first pick of every counter of the snapshot was index 0: the first
\* enabled provider of the alias, the first reply of the rule
FirstPicksAreFirst(k) ==
    /\ \A n \in DOMAIN k.alias_log :
          k.alias_log[n][1] = enabled_providers(k.aliases[n], k.models)[1]
    /\ \A key \in DOMAIN k.rule_log :
          k.rule_log[key][1] =
              unwrap(k.models[key[1]].static).rules[key[2] + 1].replies[1]

\* C30: round-robin counters belong to the snapshot.  The snapshot that a
\* successful reload publishes has every counter of a rule and of an alias
\* at zero, so the first round-robin pick on it is index 0 however many
\* requests were served before; a request that still runs on the old
\* snapshot advances the counters of the old snapshot and none of the new
\* one; a debounced or failed reload, and every other step of a reload,
\* leaves the counters of the published snapshot as they are.
C30_CountersPerSnapshot ==
    /\ [](\A s \in 1..Len(snaps) : FirstPicksAreFirst(snaps[s]))
    /\ [][published' # published =>
             Counters(snaps'[published']) = <<(<<>>), (<<>>)>>]_vars
    /\ [][\A q \in Requests :
             RequestStep(q) =>
                \A s \in 1..Len(snaps) : s # qsnap[q] => snaps'[s] = snaps[s]]_vars
    /\ [][ReloadCallStep =>
             /\ \A s \in 1..Len(snaps) : snaps'[s] = snaps[s]
             /\ published' = published =>
                   Counters(snaps'[published']) = Counters(snaps[published])]_vars

\* Two requests have gone through the alias on the first snapshot, one of
\* them still running after the reload, and the first pick on the
\* published snapshot is the first provider again
C30_Witness ==
    /\ published = 2
    /\ Len(counter_log(snaps[1].alias_log, <<"g">>)) = 2
    /\ \E q \in Requests : qsnap[q] = 1 /\ qpc[q] = "reply"
    /\ counter_log(snaps[2].alias_log, <<"g">>) =
          <<counter_log(snaps[1].alias_log, <<"g">>)[1]>>
    /\ counter(snaps[2].alias_rr, <<"g">>) = 1

\* ------------------------------------------------------------------------
\* C31: reload() takes the write lock on the published pointer only with
\* the complete new snapshot in hand.  The caller that holds the lock is
\* past KernelState::load, and what it stored is a complete build; the step
\* that ends a build (with a snapshot or with an error) is taken by a
\* caller that does not hold the lock; and the next step of the holder
\* releases the lock and builds nothing, so that a current() that waits
\* for the lock waits for no build.
\* ------------------------------------------------------------------------
Holds(r) == wlock = Some(r)

BuildStep(r) == rpc[r] = "load" /\ rpc'[r] # "load"

C31_BuildBeforeLock ==
    /\ [](\A r \in Reloaders :
            Holds(r) =>
               /\ rpc[r] = "record"
               /\ rbuild[r].active
               /\ published = rbuild[r].state
               /\ BuiltCompletely(snaps[published]))
    /\ [][\A r \in Reloaders :
             /\ BuildStep(r) => ~Holds(r) /\ wlock' = wlock
             /\ Holds(r) /\ rpc'[r] # rpc[r] =>
                   /\ wlock' = None
                   /\ Len(snaps') = Len(snaps)]_vars

\* One caller holds the write lock on the pointer it has just stored while
\* the other is still inside KernelState::load
C31_Witness ==
    \E r \in Reloaders : \E o \in Reloaders \ {r} :
       /\ Holds(r)
       /\ published = rbuild[r].state
       /\ published > 1
       /\ rpc[o] = "load"

\* ------------------------------------------------------------------------
\* C32: for a static model that the load accepted, the default index of
\* the match cache is the index of the one rule with default = true, and
\* select_rule_index returns a rule of the model for every input, be it a
\* text that matches a conditioned rule, a text that matches none, or no
\* text at all; so select_static_reply never answers
\* Internal("no matching rule").
\* ------------------------------------------------------------------------
NoMatchingRule == Err("Internal", "no matching rule")

StaticReplies ==
    select_static_reply(<<"m">>, fin.cfg, <<>>, Some(fout.cache), fin.user_text)

C32_DefaultIndex ==
    fin.op = "select_rule" =>
       /\ fout.stage \in {"loaded", "selected"} =>
             /\ Cardinality(DefaultRules(fin.cfg)) = 1
             /\ \A i \in DefaultRules(fin.cfg) :
                   fout.cache.default_index = Some(i - 1)
       /\ fout.stage = "selected" =>
             /\ is_some(fout.rule_idx)
             /\ unwrap(fout.rule_idx) \in 0..(Len(fin.cfg.rules) - 1)
             /\ \A o \in StaticReplies : o.res.ok /\ o.res # NoMatchingRule

\* A model whose default rule is the second of three: a text that no
\* conditioned rule matches, and a request without input text, get it
C32_Witness ==
    /\ fin.op = "select_rule"
    /\ fout.stage = "selected"
    /\ Len(fin.cfg.rules) = 3
    /\ fout.cache.default_index = Some(1)
    /\ fout.rule_idx = Some(1)
    /\ \/ fin.user_text = None
       \/ /\ is_some(fin.user_text)
          /\ matching(fout.cache, unwrap(fin.user_text)) = {}

\* ------------------------------------------------------------------------
\* SpecLife: script workers over the life of their snapshots.  One admin
\* client reloads; chat requests bind the published snapshot and call a
\* script model of it.  A worker is named <<n, id>>: the thread that
\* start_engine spawned for model id in build n, where build 0 is
\* KernelHandle::new and build n the n-th call of reload().
\* ------------------------------------------------------------------------
MaxBuilds == 2

LifeReloaders == {"r1"}

LifeCallers == {"c1"}

\* What is on disk at a reload: a script model and two static models, or
\* a static model, a script model, and a script model whose worker fails
\* to initialise
LifeConfigs == {CfgB, CfgBadScript}

WorkerKeys == (0..MaxBuilds) \X {<<"s">>, <<"t">>}

\* The build that made snapshot s
BuildOf(s) == IF s = 1 THEN 0 ELSE snaps[s].build

\* The snapshot that the handler of the reload request bound on entry
\* (admin.rs: kernel = state.kernel.current())
EntrySnapshot(r) ==
    IF is_some(rcall[r].after) THEN unwrap(rcall[r].after).state ELSE 1

\* The snapshot that the chat request of caller c bound on entry
BoundBuild(c) == stasks[stid[c]].model[1]

\* An Arc<KernelState> of snapshot s exists: the published pointer, the
\* binding of a request in flight, or the new state in the hands of
\* reload()
Held(s) ==
    \/ published = s
    \/ \E r \in LifeReloaders : rpc[r] # "idle" /\ EntrySnapshot(r) = s
    \/ \E r \in LifeReloaders :
          rpc[r] \in {"swap", "record"} /\ rbuild[r].state = s
    \/ \E c \in LifeCallers : spc[c] # "idle" /\ BoundBuild(c) = BuildOf(s)

\* The SyncSender of the worker exists: in the engines map of the load
\* that is under way, or in a KernelState that is held
sender_alive(key) ==
    \/ \E r \in LifeReloaders :
          /\ rpc[r] = "load"
          /\ rbuild[r].active
          /\ ncalls = key[1]
          /\ key[2] \in rbuild[r].engines
    \/ \E s \in 1..Len(snaps) :
          /\ BuildOf(s) = key[1]
          /\ key[2] \in snaps[s].engines
          /\ Held(s)

\* A receiver that gives up the queued tasks when the sender is dropped
receiver_ends_on_disconnect(key) == ~sender_alive(key)

\* for task in receiver: the iteration ends when the channel is empty and
\* its sender has been dropped
receiver_ends(key) == squeue[key] = <<>> /\ ~sender_alive(key)

LifeStart ==
    /\ snow = 0
    /\ stasks = <<>>
    /\ squeue = [key \in {0} \X snaps[1].engines |-> <<>>]
    /\ sworker = [key \in {0} \X snaps[1].engines |-> 0]
    /\ sexec = [key \in {0} \X snaps[1].engines |-> <<>>]
    /\ spc = [c \in Callers |-> "idle"]
    /\ stid = [c \in Callers |-> 0]
    /\ sret = NoScriptRet

LifeInit ==
    /\ PureIdle
    /\ KernelStartWith(CfgB)
    /\ RequestsStart
    /\ LifeStart
    /\ HubStart

LifeReloadCall(r) ==
    /\ ncalls < MaxBuilds
    /\ ReloadCall(r)

\* thread::spawn in start_engine: the worker of model id in this build,
\* waiting on its channel, or gone at once when ScriptEngine::new failed
Spawn(key, ready) ==
    /\ sworker' = sworker @@ (key :> IF ready THEN 0 ELSE Exited)
    /\ squeue' = squeue @@ (key :> <<>>)
    /\ sexec' = sexec @@ (key :> <<>>)

\* reload() returns the error of KernelState::load
LoadFails(r, done) ==
    /\ rret' = [who |-> r, kind |-> "Internal", reloaded |-> FALSE,
                state |-> 0, built |-> TRUE, done |-> done,
                call |-> rcall[r], prev |-> last_true]
    /\ rpc' = [rpc EXCEPT ![r] = "idle"]
    /\ rcall' = [rcall EXCEPT ![r] = NoCall]
    /\ rbuild' = [rbuild EXCEPT ![r] = NoBuild]

\* KernelState::load: load_app_config
LoadBegin(r) ==
    /\ rpc[r] = "load"
    /\ ~rbuild[r].active
    /\ \E c \in LifeConfigs :
          IF load_app_config(c)
          THEN /\ rbuild' = [rbuild EXCEPT ![r] = begin_load(c)]
               /\ UNCHANGED <<rret, rpc, rcall>>
          ELSE LoadFails(r, 0)
    /\ UNCHANGED <<now, snaps, published, wlock, last_start, last_true, ncalls,
                   pvars, svars, hvars, qvars>>

\* KernelState::load: one iteration of the loop over the models.  An
\* error drops the engines map, and with it the senders of the workers
\* that the build had started.
LoadModel(r) ==
    /\ rpc[r] = "load"
    /\ rbuild[r].active
    /\ rbuild[r].done < Len(rbuild[r].cfg.models)
    /\ LET b == rbuild[r]
           model == b.cfg.models[b.done + 1]
           step == load_model(b)
       IN  /\ IF step.ok
              THEN /\ rbuild' = [rbuild EXCEPT ![r] = step.b]
                   /\ UNCHANGED <<rret, rpc, rcall>>
              ELSE LoadFails(r, b.done)
           /\ IF model.kind = "script"
              THEN Spawn(<<ncalls, model.id>>, step.ok)
              ELSE UNCHANGED <<sworker, squeue, sexec>>
    /\ UNCHANGED <<now, snaps, published, wlock, last_start, last_true, ncalls,
                   snow, stasks, spc, stid, sret, pvars, hvars, qvars>>

\* KernelState::load returns the state, and reload() wraps it in an Arc
LoadEnd(r) ==
    /\ rpc[r] = "load"
    /\ rbuild[r].active
    /\ rbuild[r].done = Len(rbuild[r].cfg.models)
    /\ snaps' = Append(snaps, new_state(rbuild[r]) @@ [build |-> ncalls])
    /\ rbuild' = [rbuild EXCEPT ![r] = [active |-> TRUE, state |-> Len(snaps) + 1]]
    /\ rpc' = [rpc EXCEPT ![r] = "swap"]
    /\ UNCHANGED <<now, published, wlock, last_start, rcall, rret, last_true,
                   ncalls, pvars, svars, hvars, qvars>>

\* chat_completions for a script model: current(), the model of the
\* snapshot, and run_script up to its send
LifeBegin(c) ==
    /\ spc[c] = "idle"
    /\ Len(stasks) < MaxTasks
    /\ wlock = None
    /\ \E id \in snaps[published].engines :
          /\ stasks' = Append(stasks, new_task(c, <<BuildOf(published), id>>))
          /\ stid' = [stid EXCEPT ![c] = Len(stasks) + 1]
          /\ spc' = [spc EXCEPT ![c] = "blocked"]
    /\ UNCHANGED <<snow, squeue, sworker, sexec, sret, pvars, kvars, qvars, hvars>>

\* The worker thread returns: the receiver iteration has ended
WorkerExit(key) ==
    /\ worker_free(key)
    /\ receiver_ends(key)
    /\ sworker' = [sworker EXCEPT ![key] = Exited]
    /\ UNCHANGED <<snow, stasks, squeue, sexec, spc, stid, sret, pvars, kvars,
                   qvars, hvars>>

WorkerStep(key) ==
    /\ key \in DOMAIN sworker
    /\ \/ WorkerTake(key)
       \/ WorkerFinish(key)
       \/ WorkerExit(key)

LifeNext ==
    \/ ScriptTick
    \/ \E r \in LifeReloaders :
          \/ LifeReloadCall(r)
          \/ ReloadDebounced(r)
          \/ LoadBegin(r)
          \/ LoadModel(r)
          \/ LoadEnd(r)
          \/ Swap(r)
          \/ Record(r)
    \/ \E c \in LifeCallers :
          \/ LifeBegin(c)
          \/ SendUnblocked(c)
          \/ Receive(c)
          \/ Timeout(c)
    \/ \E key \in DOMAIN sworker :
          \/ WorkerTake(key)
          \/ WorkerFinish(key)
          \/ WorkerExit(key)

\* Each worker thread gets to run: it takes the task that waits, its call
\* of handle returns, and it returns when its channel is closed
SpecLife ==
    /\ LifeInit
    /\ [][LifeNext]_vars
    /\ \A key \in WorkerKeys : WF_vars(WorkerStep(key))

\* ------------------------------------------------------------------------
\* C33: a script worker lives as long as its snapshot.  The worker of a
\* script model of a snapshot has not returned while the snapshot is the
\* published one, is bound by a request in flight or is in the hands of
\* reload(), nor has a worker of a build that is under way; a worker
\* returns only when nothing holds its sender any more and every task that
\* entered its channel has been executed; and once nothing holds the
\* sender the worker does return, having executed those tasks, given that
\* each call of handle returns: time and again every worker whose sender is
\* gone has returned (a sender that is gone stays gone, and a worker that
\* has returned stays so).  This covers the workers that a failed
\* build had started.
\* ------------------------------------------------------------------------
Spawned(key) == key \in DOMAIN sworker

\* Every task that entered the channel of the worker has been executed
Drained(key) ==
    /\ squeue[key] = <<>>
    /\ \A i \in entered(stasks, key) : stasks[i].state = "done"

Returns(key) ==
    /\ Spawned(key)
    /\ sworker[key] # Exited
    /\ sworker'[key] = Exited

C33_WorkerLifetime ==
    /\ [](/\ \A s \in 1..Len(snaps) : \A id \in snaps[s].engines :
               Held(s) => /\ Spawned(<<BuildOf(s), id>>)
                          /\ sworker[<<BuildOf(s), id>>] # Exited
          /\ \A r \in LifeReloaders :
               rpc[r] = "load" /\ rbuild[r].active =>
                  \A id \in rbuild[r].engines :
                     /\ Spawned(<<ncalls, id>>)
                     /\ sworker[<<ncalls, id>>] # Exited)
    /\ [][\A key \in WorkerKeys :
             Returns(key) => ~sender_alive(key) /\ Drained(key)]_vars
    /\ []<>(\A key \in DOMAIN sworker :
               ~sender_alive(key) => sworker[key] = Exited /\ Drained(key))

\* The snapshot of startup was replaced and dropped while a task of a
\* caller that had timed out was still to be executed: its worker executed
\* the task and returned.  The worker that a failed build had started has
\* returned as well, and the worker of the published snapshot waits.
C33_Witness ==
    /\ published = 2
    /\ ~Held(1)
    /\ sworker[<<0, <<"s">>>>] = Exited
    /\ \E i \in 1..Len(stasks) :
          /\ stasks[i].model = <<0, <<"s">>>>
          /\ stasks[i].state = "done"
          /\ stasks[i].late
    /\ rret.kind = "ok"
    /\ Spawned(<<1, <<"s">>>>)
    /\ sworker[<<1, <<"s">>>>] = Exited
    /\ sworker[<<1, <<"t">>>>] = Exited
    /\ Spawned(<<2, <<"s">>>>)
    /\ sworker[<<2, <<"s">>>>] = 0

\* ------------------------------------------------------------------------
\* C34 (as stated): when reply(id, payload) has returned true, the client
\* of request id gets that payload, its content, reasoning and
\* finish_reason as the reasoning mode renders them, and not the fallback
\* text, in the non-streaming and in the streaming path, whatever the
\* order of the operator's steps and the handler's.
\* ------------------------------------------------------------------------
GotPayload(r, payload) ==
    /\ ~hout[r].timed_out
    /\ IF hcfg[r].stream
       THEN hout[r].events =
                interactive_prelude(hcfg[r].fake_reasoning, hcfg[r].reasoning_mode,
                                    hcfg[r].chunk_size)
                \o interactive_rest(payload, hcfg[r].reasoning_mode,
                                    hcfg[r].chunk_size)
       ELSE hout[r].body = Some(interactive_body(payload, hcfg[r].reasoning_mode))

C34_ReplyReachesClient ==
    \A r \in RequestIds :
       (oret.who # "none" /\ oret.found /\ oret.id = r /\ hout[r].complete) =>
          GotPayload(r, HubPayload(oret.who))

\* ------------------------------------------------------------------------
\* SpecLocks: the two locks of KernelHandle, step by step.  The write lock
\* on `inner` is wlock; the reload-state mutex is held by the caller that
\* is inside is_debounced, and by reload() for the one statement that
\* stores last_start.
\* ------------------------------------------------------------------------
InDebounce(r) == rpc[r] = "in_debounce"

MutexFree == \A r \in Reloaders : ~InDebounce(r)

\* reload(), entry: is_debounced locks the reload-state mutex
DebounceEnter(r) ==
    /\ rpc[r] = "idle"
    /\ ncalls < MaxReloadCalls
    /\ MutexFree
    /\ ncalls' = ncalls + 1
    /\ rpc' = [rpc EXCEPT ![r] = "in_debounce"]
    /\ rcall' = [rcall EXCEPT ![r] = [at |-> now, after |-> last_true]]
    /\ UNCHANGED <<now, snaps, published, wlock, last_start, rbuild, rret,
                   last_true, pvars, svars, hvars, qvars>>

\* An is_debounced that reads the published snapshot before it lets go of
\* the mutex
DebounceLeave_after_current(r) ==
    /\ InDebounce(r)
    /\ wlock = None
    /\ last_start' = is_debounced.last_start
    /\ rpc' = [rpc EXCEPT ![r] = IF is_debounced.debounced THEN "debounced"
                                  ELSE "load"]
    /\ UNCHANGED <<now, snaps, published, wlock, rbuild, rcall, rret,
                   last_true, ncalls, pvars, svars, hvars, qvars>>

\* is_debounced, under the mutex: the check, the store, and the return,
\* where the guard goes out of scope
DebounceLeave(r) ==
    /\ InDebounce(r)
    /\ last_start' = is_debounced.last_start
    /\ rpc' = [rpc EXCEPT ![r] = IF is_debounced.debounced THEN "debounced"
                                  ELSE "load"]
    /\ UNCHANGED <<now, snaps, published, wlock, rbuild, rcall, rret,
                   last_true, ncalls, pvars, svars, hvars, qvars>>

\* reload(), with the write lock held: lock the reload-state mutex, store
\* last_start and return, which releases both
LockRecord(r) ==
    /\ MutexFree
    /\ Record(r)

\* A step of the reload() call of r that is under way
ReloaderStep(r) ==
    \/ DebounceLeave(r)
    \/ ReloadDebounced(r)
    \/ Load(r)
    \/ Swap(r)
    \/ LockRecord(r)

LocksNext ==
    \/ \E r \in Reloaders :
          \/ DebounceEnter(r)
          \/ DebounceLeave(r)
          \/ ReloadDebounced(r)
          \/ Load(r)
          \/ Swap(r)
          \/ LockRecord(r)
    \/ \E q \in Requests :
          \/ ReqBegin(q)
          \/ ReqResolve(q)
          \/ ReqReply(q)

\* Each thread that can take a step of its reload() call does so in the
\* end, KernelState::load included
SpecLocks ==
    /\ Init
    /\ [][LocksNext]_vars
    /\ \A r \in Reloaders : WF_vars(ReloaderStep(r))

\* ------------------------------------------------------------------------
\* C35: current() and reload() cannot deadlock.  The caller inside
\* is_debounced, who holds the reload-state mutex, can always go on,
\* whoever holds the write lock on the snapshot pointer; a caller holds the
\* write lock only to store the pointer and to record the start, for which
\* it waits for the mutex alone; so time and again every reload() call has
\* returned and the write lock is free for current().
\* ------------------------------------------------------------------------
AllReturned ==
    /\ \A r \in Reloaders : rpc[r] = "idle"
    /\ wlock = None

C35_NoDeadlock ==
    /\ [](\A r \in Reloaders :
            /\ InDebounce(r) => wlock # Some(r) /\ ENABLED DebounceLeave(r)
            /\ (wlock = Some(r) /\ MutexFree) => ENABLED LockRecord(r))
    /\ []<>AllReturned

\* One caller holds the write lock and waits for the reload-state mutex,
\* which another caller holds inside is_debounced
C35_Witness ==
    \E r \in Reloaders : \E o \in Reloaders \ {r} :
       /\ wlock = Some(r)
       /\ rpc[r] = "record"
       /\ InDebounce(o)
       /\ ~ENABLED LockRecord(r)

\* ------------------------------------------------------------------------
\* C36 (as stated): reload() returns reloaded=false only if a reload that
\* published a snapshot took place less than 1.5 s before the call.
\* ------------------------------------------------------------------------
ReturnedDebounced(ret) ==
    /\ ret.who # "none"
    /\ ret.kind = "ok"
    /\ ~ret.reloaded

C36_DebouncedOnlyAfterSuccess ==
    ReturnedDebounced(rret) => WithinWindow(rret)

\* ------------------------------------------------------------------------
\* C36 (amended): reload() returns reloaded=false only if some reload had
\* published a snapshot before the call and, less than 1.5 s before the
\* call, a start was recorded; and a start is recorded only by a reload
\* that has published its snapshot or, once a reload has succeeded, by a
\* call that passes the debounce check, whatever its outcome.  So a failed
\* attempt makes a following call debounced only if a reload had succeeded
\* before that attempt.
\* ------------------------------------------------------------------------
PassesCheck(r) == rpc[r] = "idle" /\ rpc'[r] = "load"

GetsDebounced(r) == rpc[r] = "idle" /\ rpc'[r] = "debounced"

Publishes(r) == rpc[r] = "record" /\ rpc'[r] = "idle"

C36_DebouncedAfterRecordedStart ==
    /\ [](ReturnedDebounced(rret) => is_some(rret.call.after))
    /\ [](is_some(last_start) =>
            is_some(last_true) /\ unwrap(last_start) >= unwrap(last_true).at)
    /\ [][/\ \A r \in Reloaders :
               GetsDebounced(r) =>
                  /\ is_some(last_start)
                  /\ now - unwrap(last_start) < RELOAD_DEBOUNCE
                  /\ last_start' = last_start
          /\ last_start' # last_start =>
               /\ last_start' = Some(now)
               /\ \E r \in Reloaders :
                     \/ Publishes(r)
                     \/ PassesCheck(r) /\ is_some(last_true)]_vars

\* A call returned reloaded=false although the last reload that published
\* a snapshot had returned 1.5 s before it: the start of an attempt in
\* between had been recorded.
C36_Witness ==
    /\ ReturnedDebounced(rret)
    /\ is_some(rret.call.after)
    /\ rret.call.at - unwrap(rret.call.after).at >= RELOAD_DEBOUNCE
    /\ last_start = Some(rret.call.at)
    /\ last_true = rret.call.after

\* ------------------------------------------------------------------------
\* C37: each call of run_script gets only the result of its own task.  The
\* worker sends a result on the channel of the task it has just executed
\* and on no other, and only while the receiver of that task is held; a
\* caller returns the result that the execution of its own task produced;
\* the result of a task whose caller has timed out reaches no one; and
\* every task that entered a channel is waiting in it, being executed, or
\* has been executed, exactly once.
\* ------------------------------------------------------------------------
Places(id, m) ==
    Cardinality({i \in 1..Len(squeue[m]) : squeue[m][i] = id})
    + Cardinality({i \in 1..Len(sexec[m]) : sexec[m][i] = id})
    + (IF sworker[m] = id THEN 1 ELSE 0)

Executions(id, m) ==
    Cardinality({i \in 1..Len(sexec[m]) : sexec[m][i] = id})

GetsResult(c) ==
    /\ spc[c] = "waiting"
    /\ spc'[c] = "idle"
    /\ sret'.kind # "script timeout"

C37_OwnResultOnly ==
    /\ [](\A id \in 1..Len(stasks) :
             LET m == stasks[id].model
             IN  /\ stasks[id].seq > 0 => Places(id, m) = 1
                 /\ stasks[id].seq = 0 => Places(id, m) = 0
                 /\ Executions(id, m) = (IF stasks[id].state = "done" THEN 1 ELSE 0)
                 /\ \A o \in ScriptModels \ {m} : Places(id, o) = 0)
    /\ [](\A c \in Callers : \A d \in Callers :
             /\ spc[c] # "idle" => stid[c] > 0 /\ stasks[stid[c]].caller = c
             /\ spc[c] # "idle" /\ spc[d] # "idle" /\ c # d => stid[c] # stid[d])
    /\ [][/\ \A id \in 1..Len(stasks) :
               stasks'[id].resp # stasks[id].resp /\ stasks'[id].resp # "pending" =>
                  /\ sworker[stasks[id].model] = id
                  /\ stasks[id].rx = "open"
                  /\ stasks'[id].state = "done"
                  /\ stasks'[id].resp = stasks'[id].result
                  /\ \A o \in 1..Len(stasks) :
                        o # id => stasks'[o].resp = stasks[o].resp
          /\ \A m \in ScriptModels :
               sworker[m] > 0 /\ sworker'[m] # sworker[m]
               /\ stasks[sworker[m]].rx = "dropped" =>
                  \A o \in 1..Len(stasks) : stasks'[o].resp = stasks[o].resp
          /\ \A c \in Callers :
               GetsResult(c) =>
                  /\ sret'.who = c
                  /\ sret'.task = stid[c]
                  /\ stasks[stid[c]].state = "done"
                  /\ sret'.kind = stasks[stid[c]].result
                  /\ Executions(stid[c], stasks[stid[c]].model) = 1]_vars

\* The first task of a model was finished after its caller had timed out;
\* the caller of the second task, which waited behind it, got the error of
\* its own execution, and each of the two was executed once.
C37_Witness ==
    /\ sret.kind = "Internal"
    /\ sret.task = 2
    /\ sexec[stasks[2].model] = <<1, 2>>
    /\ stasks[1].late
    /\ stasks[1].resp = "pending"

\* ------------------------------------------------------------------------
\* C38: in the order in which the hub sends its events, the queued event
\* of a request id comes before the replied or timeout event of that id,
\* however reply and timeout calls interleave with the enqueue: a terminal
\* event of an id is sent only with the queued event of that id sent
\* before, and while an enqueue is between its insert and its send no
\* reply or timeout call has taken the entry.
\* ------------------------------------------------------------------------
TerminalEvent(event) == event.type \in {"replied", "timeout"}

QueuedBefore(i) ==
    \E j \in 1..(i - 1) : hsent[j] = InteractiveEvent("queued", hsent[i].id)

C38_QueuedFirst ==
    /\ [](\A i \in 1..Len(hsent) : TerminalEvent(hsent[i]) => QueuedBefore(i))
    /\ [](\A r \in RequestIds :
            hpc[r] = "locked" =>
               /\ hlock = Some(r)
               /\ r \in hpending
               /\ Replying(r) = {}
               /\ EventCount("queued", r) = 0)
    /\ [][hsent' # hsent /\ TerminalEvent(hsent'[Len(hsent')]) =>
             EventCount("queued", hsent'[Len(hsent')].id) = 1]_vars

\* A reply call came too late for a request that had timed out: it found
\* no entry, and the events of the id are queued, then timeout
C38_Witness ==
    \E r \in RequestIds :
       /\ oret.who # "none"
       /\ oret.id = r
       /\ ~oret.found
       /\ \E i \in 1..Len(hsent) : \E j \in 1..Len(hsent) :
             /\ i < j
             /\ hsent[i] = InteractiveEvent("queued", r)
             /\ hsent[j] = InteractiveEvent("timeout", r)

\* ------------------------------------------------------------------------
\* handlers.rs: the listing endpoints
\* ------------------------------------------------------------------------
\* The characters of the ids of the catalogs, in the order of their bytes
ByteOrder == <<" ", "-", "/", "a", "b", "f", "g", "k", "l", "m">>

Rank(ch) == CHOOSE i \in 1..Len(ByteOrder) : ByteOrder[i] = ch

\* String::cmp, a <= b: byte by byte, a prefix before what it is a prefix of
RECURSIVE str_le(_, _)
str_le(a, b) ==
    IF a = <<>> THEN TRUE
    ELSE IF b = <<>> THEN FALSE
    ELSE IF Head(a) = Head(b) THEN str_le(Tail(a), Tail(b))
    ELSE Rank(Head(a)) < Rank(Head(b))

\* list_models, the entries for the models: the enabled ones, under
\* owned_by/id
model_entries(kernel) ==
    {build_public_id(kernel.models[id].owned_by, id) :
        id \in {m \in DOMAIN kernel.models : ~kernel.models[m].disabled}}

\* list_models, the entries for the aliases: the enabled ones that have an
\* enabled provider, under alias_owned_by/name
alias_entries(kernel) ==
    {build_public_id(alias_owned_by(kernel.aliases[n], kernel.models), n) :
        n \in {a \in DOMAIN kernel.aliases :
                  /\ ~kernel.aliases[a].disabled
                  /\ alias_has_enabled_provider(kernel.aliases[a], kernel.models)}}

\* list_models: the ids of `data`, one per entry, sorted by public id
list_models(kernel) ==
    LET ids == model_entries(kernel) \cup alias_entries(kernel)
        times(id) == (IF id \in model_entries(kernel) THEN 1 ELSE 0)
                     + (IF id \in alias_entries(kernel) THEN 1 ELSE 0)
        n == Cardinality(model_entries(kernel)) + Cardinality(alias_entries(kernel))
    IN  CHOOSE data \in [1..n -> ids] :
           /\ \A id \in ids : Cardinality({i \in 1..n : data[i] = id}) = times(id)
           /\ \A i \in 1..(n - 1) : str_le(data[i], data[i + 1])

\* model_object_for_public_id: the object of the alias, of the model, or
\* None; of the object its id, what it stands for and its owned_by
model_object_for_public_id(id, kernel) ==
    LET split == split_public_id(id)
    IN  IF ~is_some(split) THEN None
        ELSE LET prefix == unwrap(split).prefix
                 name == unwrap(split).name
             IN  IF /\ name \in DOMAIN kernel.aliases
                    /\ kernel.aliases[name].disabled
                 THEN None
                 ELSE IF /\ name \in DOMAIN kernel.aliases
                         /\ alias_owned_by(kernel.aliases[name], kernel.models) = prefix
                         /\ alias_has_enabled_provider(kernel.aliases[name],
                                                       kernel.models)
                 THEN Some([id |-> id, of |-> "alias",
                            owned_by |-> alias_owned_by(kernel.aliases[name],
                                                        kernel.models)])
                 ELSE IF name \notin DOMAIN kernel.models THEN None
                 ELSE IF kernel.models[name].disabled THEN None
                 ELSE IF kernel.models[name].owned_by = prefix
                 THEN Some([id |-> id, of |-> "model",
                            owned_by |-> kernel.models[name].owned_by])
                 ELSE None

\* ------------------------------------------------------------------------
\* C39 (as stated): every public id that GET /v1/models returns for a
\* snapshot is accepted on that snapshot by resolve_public_model, which
\* does not answer NotFound for it, and by GET /v1/models/{id}, also when
\* an alias and a model have the same name.
\* ------------------------------------------------------------------------
Listed(kernel, id) ==
    \E i \in 1..Len(list_models(kernel)) : list_models(kernel)[i] = id

C39_ListedIdsRoutable ==
    (ResolveDone /\ Listed(fin.kernel, fin.public_id)) =>
        /\ ~IsNotFound(fout.res)
        /\ is_some(model_object_for_public_id(fin.public_id, fin.kernel))

\* ------------------------------------------------------------------------
\* handlers.rs: interpolate_reply
\* ------------------------------------------------------------------------
ModelIdVar == <<"{", "{", "m", "o", "d", "e", "l", ".", "i", "d", "}", "}">>
NowVar == <<"{", "{", "n", "o", "w", "}", "}">>
RequestIdVar == <<"{", "{", "r", "e", "q", "u", "e", "s", "t", "_", "i", "d", "}", "}">>
LastUserVar == <<"{", "{", "l", "a", "s", "t", "_", "u", "s", "e", "r", "}", "}">>

\* str::replace: the matches of `from` that do not overlap, from the left,
\* each replaced by `to`; what is put in is not searched again
RECURSIVE replace(_, _, _)
replace(s, from, to) ==
    IF s = <<>> THEN <<>>
    ELSE IF Len(s) >= Len(from) /\ SubSeq(s, 1, Len(from)) = from
    THEN to \o replace(SubSeq(s, Len(from) + 1, Len(s)), from, to)
    ELSE <<Head(s)>> \o replace(Tail(s), from, to)

\* An interpolate_value that puts the user's text in first
interpolate_value_last_user_first(value, ctx) ==
    LET last_user == unwrap_or(ctx.last_user, <<>>)
        with_user == replace(value, LastUserVar, last_user)
        with_model == replace(with_user, ModelIdVar, ctx.model_id)
        with_now == replace(with_model, NowVar, ctx.now)
    IN  replace(with_now, RequestIdVar, ctx.request_id)

\* interpolate_value: {{model.id}}, {{now}}, {{request_id}} and then
\* {{last_user}}, for which a missing input text counts as ""
interpolate_value(value, ctx) ==
    LET with_model == replace(value, ModelIdVar, ctx.model_id)
        with_now == replace(with_model, NowVar, ctx.now)
        with_request == replace(with_now, RequestIdVar, ctx.request_id)
        last_user == unwrap_or(ctx.last_user, <<>>)
    IN  replace(with_request, LastUserVar, last_user)

\* interpolate_reply: the content, and the reasoning if there is one
interpolate_reply(reply, ctx) ==
    [content |-> interpolate_value(reply.content, ctx),
     reasoning |-> IF is_some(reply.reasoning)
                   THEN Some(interpolate_value(unwrap(reply.reasoning), ctx))
                   ELSE None]

\* ------------------------------------------------------------------------
\* SpecInterpolate: interpolate_reply applied to the replies and input
\* texts put together from up to MaxReplyParts and MaxUserParts pieces: the
\* four variables, a variable that lacks its closing braces, and the
\* closing braces alone
\* ------------------------------------------------------------------------
MaxReplyParts == 2
MaxUserParts == 2

Pieces == {ModelIdVar, NowVar, RequestIdVar, LastUserVar,
           <<"{", "{", "n", "o", "w">>, <<"}", "}">>}

PiecedTexts(n) == {Flatten(parts) : parts \in SeqsUpTo(Pieces, n)}

\* The context of a request: the id of the model, the request id and the
\* time, which the server makes, and the input text, which the client sends
Context(last_user) ==
    [last_user |-> last_user, model_id |-> <<"m">>, request_id |-> <<"r">>,
     now |-> <<"t">>]

InterpolateInit ==
    /\ fin \in [op : {"interpolate"},
                reply : [content : PiecedTexts(MaxReplyParts),
                         reasoning : {None, Some(LastUserVar \o NowVar)}],
                last_user : {None} \cup {Some(t) : t \in PiecedTexts(MaxUserParts)}]
    /\ fout = NoOut
    /\ KernelStart
    /\ RequestsStart
    /\ ScriptStart
    /\ HubStart

\* select_static_reply, from the reply picked to the Reply returned
ApplyInterpolate ==
    /\ fin.op = "interpolate"
    /\ fout = NoOut
    /\ LET out == interpolate_reply(fin.reply, Context(fin.last_user))
       IN  fout' = [stage |-> "done", content |-> out.content,
                    reasoning |-> out.reasoning]
    /\ UNCHANGED <<fin, kvars, qvars, svars, hvars>>

SpecInterpolate == InterpolateInit /\ [][ApplyInterpolate]_vars

\* ------------------------------------------------------------------------
\* C40: the input text is put into a static reply as it is.  What the
\* server returns is what it returns for an input text of one character
\* that occurs nowhere else, with every occurrence of that character
\* replaced by the client's text: where the text goes and what stands
\* around it do not depend on the text, and nothing in it is substituted,
\* {{model.id}}, {{now}}, {{request_id}} and {{last_user}} included.
\* ------------------------------------------------------------------------
Mark == "#"

RECURSIVE put_in(_, _)
put_in(s, text) ==
    IF s = <<>> THEN <<>>
    ELSE (IF Head(s) = Mark THEN text ELSE <<Head(s)>>) \o put_in(Tail(s), text)

Marked(value) == interpolate_value(value, Context(Some(<<Mark>>)))

InterpolateDone == fin.op = "interpolate" /\ fout.stage = "done"

C40_UserTextVerbatim ==
    InterpolateDone =>
       LET text == unwrap_or(fin.last_user, <<>>)
       IN  /\ fout.content = put_in(Marked(fin.reply.content), text)
           /\ is_some(fin.reply.reasoning) =>
                 fout.reasoning =
                    Some(put_in(Marked(unwrap(fin.reply.reasoning)), text))
           /\ ~is_some(fin.reply.reasoning) => fout.reasoning = None
           /\ fin.reply.content = LastUserVar => fout.content = text

\* The client's message holds {{now}} and {{last_user}}; the reply, which
\* has both variables itself, comes back with the message as it was sent
\* and with the time for the reply's own {{now}} only
C40_Witness ==
    /\ InterpolateDone
    /\ fin.last_user = Some(NowVar \o LastUserVar)
    /\ fin.reply.content = LastUserVar \o NowVar
    /\ fout.content = NowVar \o LastUserVar \o <<"t">>
    /\ fout.reasoning = Some(NowVar \o LastUserVar \o <<"t">>)

====
